---- MODULE Spec2Model ----
(***************************************************************************)
(* Model of the asynchronous TCP core of the Util library                  *)
(* (src/Network/NetworkTCP.cpp, POSIX backend): TCPConnection with its     *)
(* worker thread, its queues and its caller-side operations, and TCPServer *)
(* with its accepting worker.                                              *)
(*                                                                         *)
(* Every thread is a small program counter machine.  A step is one         *)
(* lock-protected section or one socket call of the source; a lock that    *)
(* the source holds across several such steps is a variable holding its    *)
(* owner.  The network is the environment: netIn[c] are the bytes in       *)
(* flight towards connection c, netFin[c] says that the remote side has    *)
(* closed, netOut[c] is everything c has written to its socket.            *)
(***************************************************************************)
EXTENDS Integers, Sequences, FiniteSets, TLC

\* ------------------------------------------------------------------ sets
Conns == {1, 2}                 \* connection objects that may exist
Callers == {"t1", "t2"}         \* caller threads
Bytes == {0, 1}                 \* byte values
DefaultDelimiter == 0           \* the default delimiter '\0' of receiveString
LifePayloads == {<<0, 1>>}      \* the payload of the life-cycle scenario
Greeting == <<1>>               \* what a client of the server scenario writes

\* ---------------------------------------------------------------- bounds
BufferSize == 2        \* scaled BUFFER_SIZE: most bytes one recv returns
MaxSendCalls == 2      \* sendData calls in the life-cycle scenario
MaxCloseCalls == 2     \* close calls in the life-cycle scenario
MaxRemoteBytes == 1    \* bytes the remote side sends in the life-cycle scenario
RecvCalls == 2         \* receive calls in the receive scenario
RecvBytes == 2         \* bytes the remote side sends in the receive scenario
MaxNumBytes == 2       \* largest numBytes asked of receiveData(numBytes)
PairSends == 2         \* sendData calls on the connected pair
PairRecvs == 2         \* receive calls on the connected pair
GetCalls == 2          \* getIncomingConnection calls in the server scenario
ServerCloseCalls == 1  \* TCPServer::close calls in the server scenario
MaxTime == 1           \* readings of the clock: 0 .. MaxTime
MaxChunks == 3         \* chunks queued when an extraction is looked at by itself
FactoryCalls == 3      \* calls of each factory

VARIABLES
    \* TCPConnection, per connection object
    exists,            \* the object has been constructed
    state,             \* OPEN, CLOSING, CLOSED
    tcpSocket,         \* "fd" (valid), "bad" (-1), "closed" (0 after ::close)
    outQueue,          \* sequence of chunks awaiting transmission
    inQueue,           \* sequence of chunks received
    inQueueDataSize,   \* running byte counter of inQueue
    connectionDataMutex, outQueueMutex, inQueueMutex,   \* owner or "free"
    wpc,               \* position of the worker thread in run()
    buffer,            \* bytes of the worker's last successful recv
    \* network
    link,              \* connection at the other end of the socket, 0: remote host
    netIn, netFin, netOut,
    \* caller threads
    pc,                \* position of each caller thread, "idle" between calls
    tgt, arg,          \* connection and argument (a sequence) of the running call
    ret,               \* the last return of a call, by any caller
    late,              \* the running call began after a close() had returned
    \* history
    closeReturned,     \* some close() on the connection has returned
    calls, limit,      \* calls made so far per operation, and the scenario's budget
    sent, received,    \* per connection of a pair: bytes accepted by sendData in
                       \* the order enqueued, bytes returned by receive operations
    \* TCPServer
    serverState,           \* OPEN, CLOSING, CLOSED
    tcpServerSocket,       \* "fd" (listening), "closed" (0 after ::close)
    newConnectionsQueue,   \* accepted connections not yet picked up
    serverDataMutex, queueMutex,    \* owner or "free"
    spc,                   \* position of the server's worker, "none": no server
    clientSocket,          \* what accept returned, until the connection is queued
    backlog,               \* clients waiting on the listening socket
    accepted, returned,    \* history: connections in the order the worker queued
                           \* them, and in the order getIncomingConnection
                           \* returned them
    serverCloseReturned,   \* history: some TCPServer::close() has returned
    \* time
    now,                   \* the reading Timer::now() gives at this moment
    lastActiveTime,        \* connectionData->lastActiveTime
    activeAt,              \* history: the reading at the last successful send or
                           \* recv on the socket, or at the worker's start
    syscalls,              \* history: send calls the worker has made since it
                           \* took the locks it holds
    looseSockets           \* sockets a factory opened that are open and belong
                           \* to no TCPConnection or TCPServer object

connVars == <<exists, state, tcpSocket, outQueue, inQueue, inQueueDataSize,
              connectionDataMutex, outQueueMutex, inQueueMutex, wpc, buffer>>
netVars == <<link, netIn, netFin, netOut>>
thrVars == <<pc, tgt, arg, ret, late>>
histVars == <<closeReturned, calls, limit>>
logVars == <<sent, received>>
timeVars == <<now, lastActiveTime, activeAt>>
srvVars == <<serverState, tcpServerSocket, newConnectionsQueue, serverDataMutex,
             queueMutex, spc, clientSocket, backlog, accepted, returned,
             serverCloseReturned>>
vars == <<connVars, netVars, thrVars, histVars, logVars, srvVars, timeVars, syscalls,
          looseSockets>>

Ops == {"send", "close", "bytes", "recv", "get", "serverClose", "connect", "create"}
\* the last return of a call: the caller, the operation, the value returned
\* and, for the receive operations, the number of chunks inQueue held when the
\* call looked at it under the lock (0 when it did not)
Ret(t, op, val, chunks) == [by |-> t, op |-> op, val |-> val, chunks |-> chunks]
NoRet == Ret("", "none", <<>>, 0)

\* ------------------------------------------------------- state accessors
\* bool isOpen(): state == OPEN, read under stateMutex
isOpen(c) == state[c] = "OPEN"

\* void setState(s): state = s, written under stateMutex
setState(c, s) == [state EXCEPT ![c] = s]

\* UserThread::isActive(): the thread started by the constructor still runs
isActive(c) == wpc[c] # "done"

Min(a, b) == IF a < b THEN a ELSE b
Max(a, b) == IF a > b THEN a ELSE b
Prefix(s, n) == SubSeq(s, 1, n)
Suffix(s, n) == SubSeq(s, n + 1, Len(s))

\* the bytes of a queue of chunks, in order
RECURSIVE Flatten(_)
Flatten(q) == IF q = <<>> THEN <<>> ELSE Head(q) \o Flatten(Tail(q))

\* ------------------------------------------------------------ the socket
\* values send(fd, data, len) can return: len, a short count, or -1
SendResults(c, len) ==
    IF tcpSocket[c] = "fd" THEN (0 .. len) \cup {-1} ELSE {-1}

\* outcome of poll(fd, POLLIN, 1 ms)
PollReady(c) == netIn[c] # <<>> \/ netFin[c]
PollResults(c) ==
    IF tcpSocket[c] # "fd" THEN {"timeout", "error"}
    ELSE IF PollReady(c) THEN {"pollin", "error", "hup"}
    ELSE {"timeout", "error", "hup"}

\* values recv(fd, buffer, BUFFER_SIZE) can return
RecvResults(c) ==
    IF tcpSocket[c] # "fd" THEN {-1}
    ELSE IF netIn[c] # <<>> THEN (1 .. Min(BufferSize, Len(netIn[c]))) \cup {-1}
    ELSE IF netFin[c] THEN {0, -1}
    ELSE {-1}

\* bytes written to the socket of c travel to the connection it is linked to
Transmit(c, bytes) ==
    /\ netOut' = [netOut EXCEPT ![c] = @ \o bytes]
    /\ netIn' = IF link[c] # 0 THEN [netIn EXCEPT ![link[c]] = @ \o bytes] ELSE netIn

\* ------------------------------------------------- TCPConnection::run()
\* pollDescr.fd = tcpSocket, under connectionDataMutex, before the loop
W_Start(c) ==
    /\ exists[c] /\ wpc[c] = "start"
    /\ connectionDataMutex[c] = "free"
    /\ lastActiveTime' = [lastActiveTime EXCEPT ![c] = now]
    /\ activeAt' = [activeAt EXCEPT ![c] = now]
    /\ wpc' = [wpc EXCEPT ![c] = "loop"]
    /\ UNCHANGED <<exists, state, tcpSocket, outQueue, inQueue, inQueueDataSize,
                   connectionDataMutex, outQueueMutex, inQueueMutex, buffer>>
    /\ UNCHANGED <<netVars, now, syscalls, looseSockets, thrVars, histVars, logVars, srvVars>>

\* a worker loop that never looks at the state
W_LoopForever(c) ==
    /\ exists[c] /\ wpc[c] = "loop"
    /\ wpc' = [wpc EXCEPT ![c] = "lockC"]
    /\ UNCHANGED <<exists, state, tcpSocket, outQueue, inQueue, inQueueDataSize,
                   connectionDataMutex, outQueueMutex, inQueueMutex, buffer>>
    /\ UNCHANGED <<netVars, timeVars, syscalls, looseSockets, thrVars, histVars, logVars, srvVars>>

\* while (isOpen())
W_Loop(c) ==
    /\ exists[c] /\ wpc[c] = "loop"
    /\ wpc' = [wpc EXCEPT ![c] = IF isOpen(c) THEN "lockC" ELSE "close"]
    /\ UNCHANGED <<exists, state, tcpSocket, outQueue, inQueue, inQueueDataSize,
                   connectionDataMutex, outQueueMutex, inQueueMutex, buffer>>
    /\ UNCHANGED <<netVars, timeVars, syscalls, looseSockets, thrVars, histVars, logVars, srvVars>>

\* auto lockC = createLock(*connectionDataMutex)
W_LockC(c) ==
    /\ exists[c] /\ wpc[c] = "lockC"
    /\ connectionDataMutex[c] = "free"
    /\ connectionDataMutex' = [connectionDataMutex EXCEPT ![c] = "worker"]
    /\ wpc' = [wpc EXCEPT ![c] = "lockO"]
    /\ UNCHANGED <<exists, state, tcpSocket, outQueue, inQueue, inQueueDataSize,
                   outQueueMutex, inQueueMutex, buffer>>
    /\ UNCHANGED <<netVars, timeVars, syscalls, looseSockets, thrVars, histVars, logVars, srvVars>>

\* auto lockO = createLock(*outQueueMutex)
W_LockO(c) ==
    /\ exists[c] /\ wpc[c] = "lockO"
    /\ outQueueMutex[c] = "free"
    /\ outQueueMutex' = [outQueueMutex EXCEPT ![c] = "worker"]
    /\ wpc' = [wpc EXCEPT ![c] = "send"]
    /\ UNCHANGED <<exists, state, tcpSocket, outQueue, inQueue, inQueueDataSize,
                   connectionDataMutex, inQueueMutex, buffer>>
    /\ UNCHANGED <<netVars, timeVars, syscalls, looseSockets, thrVars, histVars, logVars, srvVars>>

\* a send loop that keeps the unsent rest of a chunk written in part
W_SendPartial(c) ==
    /\ exists[c] /\ wpc[c] = "send"
    /\ IF outQueue[c] = <<>>
       THEN /\ connectionDataMutex' = [connectionDataMutex EXCEPT ![c] = "free"]
            /\ outQueueMutex' = [outQueueMutex EXCEPT ![c] = "free"]
            /\ wpc' = [wpc EXCEPT ![c] = "recvCheck"]
            /\ syscalls' = [syscalls EXCEPT ![c] = 0]
            /\ UNCHANGED <<outQueue, netIn, netOut, activeAt>>
       ELSE LET data == Head(outQueue[c])
                len == Len(data)
            IN \E r \in SendResults(c, len) :
                 /\ Transmit(c, Prefix(data, Max(r, 0)))
                 /\ syscalls' = [syscalls EXCEPT ![c] = @ + 1]
                 /\ IF r < len
                    THEN /\ wpc' = [wpc EXCEPT ![c] = "sendFail"]
                         /\ outQueue' = [outQueue EXCEPT ![c] =
                                            IF r > 0 THEN <<Suffix(data, r)>> \o Tail(@)
                                            ELSE @]
                         /\ UNCHANGED activeAt
                    ELSE /\ outQueue' = [outQueue EXCEPT ![c] = Tail(@)]
                         /\ activeAt' = [activeAt EXCEPT ![c] = now]
                         /\ wpc' = [wpc EXCEPT ![c] = "send"]
                 /\ UNCHANGED <<connectionDataMutex, outQueueMutex>>
    /\ UNCHANGED <<exists, state, tcpSocket, inQueue, inQueueDataSize,
                   inQueueMutex, buffer>>
    /\ UNCHANGED <<link, netFin, thrVars, histVars, logVars, srvVars, now, lastActiveTime,
                   looseSockets>>

\* one round of while (!outQueue.empty()): send the head chunk, pop it when the
\* whole length was written; with the queue empty both locks are released
W_Send(c) ==
    /\ exists[c] /\ wpc[c] = "send"
    /\ IF outQueue[c] = <<>>
       THEN /\ connectionDataMutex' = [connectionDataMutex EXCEPT ![c] = "free"]
            /\ outQueueMutex' = [outQueueMutex EXCEPT ![c] = "free"]
            /\ wpc' = [wpc EXCEPT ![c] = "recvCheck"]
            /\ syscalls' = [syscalls EXCEPT ![c] = 0]
            /\ UNCHANGED <<outQueue, netIn, netOut, activeAt>>
       ELSE LET data == Head(outQueue[c])
                len == Len(data)
            IN \E r \in SendResults(c, len) :
                 /\ Transmit(c, Prefix(data, Max(r, 0)))
                 /\ syscalls' = [syscalls EXCEPT ![c] = @ + 1]
                 /\ IF r < len
                    THEN /\ wpc' = [wpc EXCEPT ![c] = "sendFail"]
                         /\ UNCHANGED <<outQueue, activeAt>>
                    ELSE /\ outQueue' = [outQueue EXCEPT ![c] = Tail(@)]
                         /\ activeAt' = [activeAt EXCEPT ![c] = now]
                         /\ wpc' = [wpc EXCEPT ![c] = "send"]
                 /\ UNCHANGED <<connectionDataMutex, outQueueMutex>>
    /\ UNCHANGED <<exists, state, tcpSocket, inQueue, inQueueDataSize,
                   inQueueMutex, buffer>>
    /\ UNCHANGED <<link, netFin, thrVars, histVars, logVars, srvVars, now, lastActiveTime,
                   looseSockets>>

\* a worker that goes on after a failure without setting CLOSING
W_FailRetry(c) ==
    /\ exists[c] /\ wpc[c] \in {"sendFail", "pollFail", "recvFail"}
    /\ connectionDataMutex' =
         [connectionDataMutex EXCEPT ![c] = IF wpc[c] = "pollFail" THEN @ ELSE "free"]
    /\ outQueueMutex' =
         [outQueueMutex EXCEPT ![c] = IF wpc[c] = "sendFail" THEN "free" ELSE @]
    /\ wpc' = [wpc EXCEPT ![c] = IF wpc[c] = "sendFail" THEN "recvCheck" ELSE "loop"]
    /\ syscalls' = [syscalls EXCEPT ![c] = 0]
    /\ UNCHANGED <<exists, state, tcpSocket, outQueue, inQueue, inQueueDataSize,
                   inQueueMutex, buffer>>
    /\ UNCHANGED <<netVars, timeVars, looseSockets, thrVars, histVars, logVars, srvVars>>

\* setState(CLOSING); break; at each of the places where send, poll or recv
\* failed: the locks of the scope that is left are released, and control is
\* at the loop test that follows the loop broken out of
W_Fail(c) ==
    /\ exists[c] /\ wpc[c] \in {"sendFail", "pollFail", "recvFail"}
    /\ state' = setState(c, "CLOSING")
    /\ connectionDataMutex' =
         [connectionDataMutex EXCEPT ![c] = IF wpc[c] = "pollFail" THEN @ ELSE "free"]
    /\ outQueueMutex' =
         [outQueueMutex EXCEPT ![c] = IF wpc[c] = "sendFail" THEN "free" ELSE @]
    /\ wpc' = [wpc EXCEPT ![c] = IF wpc[c] = "sendFail" THEN "recvCheck" ELSE "loop"]
    /\ syscalls' = [syscalls EXCEPT ![c] = 0]
    /\ UNCHANGED <<exists, tcpSocket, outQueue, inQueue, inQueueDataSize,
                   inQueueMutex, buffer>>
    /\ UNCHANGED <<netVars, timeVars, looseSockets, thrVars, histVars, logVars, srvVars>>

\* a receive loop that is entered whatever the state
W_RecvCheckBlind(c) ==
    /\ exists[c] /\ wpc[c] = "recvCheck"
    /\ wpc' = [wpc EXCEPT ![c] = "poll"]
    /\ UNCHANGED <<exists, state, tcpSocket, outQueue, inQueue, inQueueDataSize,
                   connectionDataMutex, outQueueMutex, inQueueMutex, buffer>>
    /\ UNCHANGED <<netVars, timeVars, syscalls, looseSockets, thrVars, histVars, logVars, srvVars>>

\* inner while (isOpen())
W_RecvCheck(c) ==
    /\ exists[c] /\ wpc[c] = "recvCheck"
    /\ wpc' = [wpc EXCEPT ![c] = IF isOpen(c) THEN "poll" ELSE "loop"]
    /\ UNCHANGED <<exists, state, tcpSocket, outQueue, inQueue, inQueueDataSize,
                   connectionDataMutex, outQueueMutex, inQueueMutex, buffer>>
    /\ UNCHANGED <<netVars, timeVars, syscalls, looseSockets, thrVars, histVars, logVars, srvVars>>

\* poll(&pollDescr, 1, 1) and the tests of result and revents
W_Poll(c) ==
    /\ exists[c] /\ wpc[c] = "poll"
    /\ \E res \in PollResults(c) :
         wpc' = [wpc EXCEPT ![c] = CASE res = "timeout" -> "loop"
                                     [] res = "pollin" -> "recv"
                                     [] OTHER -> "pollFail"]
    /\ UNCHANGED <<exists, state, tcpSocket, outQueue, inQueue, inQueueDataSize,
                   connectionDataMutex, outQueueMutex, inQueueMutex, buffer>>
    /\ UNCHANGED <<netVars, timeVars, syscalls, looseSockets, thrVars, histVars, logVars, srvVars>>

\* recv under connectionDataMutex; a positive count leaves the lock again
W_Recv(c) ==
    /\ exists[c] /\ wpc[c] = "recv"
    /\ connectionDataMutex[c] = "free"
    /\ \E n \in RecvResults(c) :
         IF n <= 0
         THEN /\ connectionDataMutex' = [connectionDataMutex EXCEPT ![c] = "worker"]
              /\ wpc' = [wpc EXCEPT ![c] = "recvFail"]
              /\ UNCHANGED <<buffer, netIn, lastActiveTime, activeAt>>
         ELSE /\ buffer' = [buffer EXCEPT ![c] = Prefix(netIn[c], n)]
              /\ netIn' = [netIn EXCEPT ![c] = Suffix(@, n)]
              /\ lastActiveTime' = [lastActiveTime EXCEPT ![c] = now]
              /\ activeAt' = [activeAt EXCEPT ![c] = now]
              /\ wpc' = [wpc EXCEPT ![c] = "enqueue"]
              /\ UNCHANGED connectionDataMutex
    /\ UNCHANGED <<exists, state, tcpSocket, outQueue, inQueue, inQueueDataSize,
                   outQueueMutex, inQueueMutex>>
    /\ UNCHANGED <<link, netFin, netOut, thrVars, histVars, logVars, srvVars, now,
                   syscalls, looseSockets>>

\* a worker that puts the received chunk at the front of inQueue
W_EnqueueFront(c) ==
    /\ exists[c] /\ wpc[c] = "enqueue"
    /\ inQueueMutex[c] = "free"
    /\ inQueueMutex' = [inQueueMutex EXCEPT ![c] = "worker"]
    /\ inQueue' = [inQueue EXCEPT ![c] = <<buffer[c]>> \o @]
    /\ wpc' = [wpc EXCEPT ![c] = "count"]
    /\ UNCHANGED <<exists, state, tcpSocket, outQueue, inQueueDataSize,
                   connectionDataMutex, outQueueMutex, buffer>>
    /\ UNCHANGED <<netVars, timeVars, syscalls, looseSockets, thrVars, histVars, logVars, srvVars>>

\* inQueue.emplace_back(buffer, buffer + bytesRecieved), under inQueueMutex
W_Enqueue(c) ==
    /\ exists[c] /\ wpc[c] = "enqueue"
    /\ inQueueMutex[c] = "free"
    /\ inQueueMutex' = [inQueueMutex EXCEPT ![c] = "worker"]
    /\ inQueue' = [inQueue EXCEPT ![c] = Append(@, buffer[c])]
    /\ wpc' = [wpc EXCEPT ![c] = "count"]
    /\ UNCHANGED <<exists, state, tcpSocket, outQueue, inQueueDataSize,
                   connectionDataMutex, outQueueMutex, buffer>>
    /\ UNCHANGED <<netVars, timeVars, syscalls, looseSockets, thrVars, histVars, logVars, srvVars>>

\* a W_Count that releases the lock without adding the chunk's size
W_CountNothing(c) ==
    /\ exists[c] /\ wpc[c] = "count"
    /\ inQueueMutex' = [inQueueMutex EXCEPT ![c] = "free"]
    /\ buffer' = [buffer EXCEPT ![c] = <<>>]
    /\ wpc' = [wpc EXCEPT ![c] = "recvCheck"]
    /\ UNCHANGED <<exists, state, tcpSocket, outQueue, inQueue, inQueueDataSize,
                   connectionDataMutex, outQueueMutex>>
    /\ UNCHANGED <<netVars, timeVars, syscalls, looseSockets, thrVars, histVars, logVars, srvVars>>

\* inQueueDataSize += bytesRecieved; the lock is released
W_Count(c) ==
    /\ exists[c] /\ wpc[c] = "count"
    /\ inQueueDataSize' = [inQueueDataSize EXCEPT ![c] = @ + Len(buffer[c])]
    /\ inQueueMutex' = [inQueueMutex EXCEPT ![c] = "free"]
    /\ buffer' = [buffer EXCEPT ![c] = <<>>]
    /\ wpc' = [wpc EXCEPT ![c] = "recvCheck"]
    /\ UNCHANGED <<exists, state, tcpSocket, outQueue, inQueue,
                   connectionDataMutex, outQueueMutex>>
    /\ UNCHANGED <<netVars, timeVars, syscalls, looseSockets, thrVars, histVars, logVars, srvVars>>

\* a worker that goes on to CLOSED and leaves the socket as it is
W_CloseNothing(c) ==
    /\ exists[c] /\ wpc[c] = "close"
    /\ connectionDataMutex[c] = "free"
    /\ connectionDataMutex' = [connectionDataMutex EXCEPT ![c] = "worker"]
    /\ wpc' = [wpc EXCEPT ![c] = "closed"]
    /\ UNCHANGED <<exists, state, tcpSocket, outQueue, inQueue, inQueueDataSize,
                   outQueueMutex, inQueueMutex, buffer>>
    /\ UNCHANGED <<netVars, timeVars, syscalls, looseSockets, thrVars, histVars, logVars, srvVars>>

\* after the loop: ::close(tcpSocket); tcpSocket = 0, under connectionDataMutex
W_Close(c) ==
    /\ exists[c] /\ wpc[c] = "close"
    /\ connectionDataMutex[c] = "free"
    /\ connectionDataMutex' = [connectionDataMutex EXCEPT ![c] = "worker"]
    /\ tcpSocket' = [tcpSocket EXCEPT ![c] = "closed"]
    /\ netFin' = IF link[c] # 0 /\ tcpSocket[c] = "fd"
                 THEN [netFin EXCEPT ![link[c]] = TRUE] ELSE netFin
    /\ wpc' = [wpc EXCEPT ![c] = "closed"]
    /\ UNCHANGED <<exists, state, outQueue, inQueue, inQueueDataSize,
                   outQueueMutex, inQueueMutex, buffer>>
    /\ UNCHANGED <<link, netIn, netOut, thrVars, histVars, logVars, srvVars, timeVars, syscalls, looseSockets>>

\* setState(CLOSED); the lock is released and run() returns
W_Closed(c) ==
    /\ exists[c] /\ wpc[c] = "closed"
    /\ state' = setState(c, "CLOSED")
    /\ connectionDataMutex' = [connectionDataMutex EXCEPT ![c] = "free"]
    /\ wpc' = [wpc EXCEPT ![c] = "done"]
    /\ UNCHANGED <<exists, tcpSocket, outQueue, inQueue, inQueueDataSize,
                   outQueueMutex, inQueueMutex, buffer>>
    /\ UNCHANGED <<netVars, timeVars, syscalls, looseSockets, thrVars, histVars, logVars, srvVars>>

Worker(c) ==
    \/ W_Start(c) \/ W_Loop(c) \/ W_LockC(c) \/ W_LockO(c) \/ W_Send(c)
    \/ W_Fail(c) \/ W_RecvCheck(c) \/ W_Poll(c)
    \/ W_Recv(c) \/ W_Enqueue(c) \/ W_Count(c)
    \/ W_Close(c) \/ W_Closed(c)

\* --------------------------------------------- TCPConnection::sendData()
ReturnSeen(t, op, val, chunks) ==
    /\ pc' = [pc EXCEPT ![t] = "idle"]
    /\ ret' = Ret(t, op, val, chunks)

Return(t, op, val) == ReturnSeen(t, op, val, 0)

Count(op) == calls' = [calls EXCEPT ![op] = @ + 1]

\* the history of a connected pair: bytes are logged for a connection whose
\* socket leads to another connection of the model
Logged(log, c, bytes) ==
    IF link[c] # 0 THEN [log EXCEPT ![c] = @ \o bytes] ELSE log

MayCall(op) == calls[op] < limit[op]

\* sendData without the test of isOpen()
SendData_NoCheck(t, c, data) ==
    /\ pc[t] = "idle" /\ exists[c] /\ MayCall("send")
    /\ Count("send")
    /\ tgt' = [tgt EXCEPT ![t] = c]
    /\ arg' = [arg EXCEPT ![t] = data]
    /\ late' = [late EXCEPT ![t] = closeReturned[c]]
    /\ pc' = [pc EXCEPT ![t] = "sd_enqueue"]
    /\ ret' = NoRet
    /\ UNCHANGED <<connVars, netVars, timeVars, syscalls, looseSockets, closeReturned, limit, logVars, srvVars>>

\* if (!isOpen()) return false;
SendData_isOpen(t, c, data) ==
    /\ pc[t] = "idle" /\ exists[c] /\ MayCall("send")
    /\ Count("send")
    /\ tgt' = [tgt EXCEPT ![t] = c]
    /\ late' = [late EXCEPT ![t] = closeReturned[c]]
    /\ IF isOpen(c)
       THEN /\ pc' = [pc EXCEPT ![t] = "sd_enqueue"]
            /\ arg' = [arg EXCEPT ![t] = data]
            /\ ret' = NoRet
       ELSE /\ Return(t, "sendData", FALSE)
            /\ UNCHANGED arg
    /\ UNCHANGED <<connVars, netVars, timeVars, syscalls, looseSockets, closeReturned, limit, logVars, srvVars>>

\* lock outQueueMutex; outQueue.emplace_back(data); return true;
SendData_enqueue(t) ==
    /\ pc[t] = "sd_enqueue"
    /\ outQueueMutex[tgt[t]] = "free"
    /\ outQueue' = [outQueue EXCEPT ![tgt[t]] = Append(@, arg[t])]
    /\ sent' = Logged(sent, tgt[t], arg[t])
    /\ Return(t, "sendData", TRUE)
    /\ arg' = [arg EXCEPT ![t] = <<>>]
    /\ UNCHANGED <<exists, state, tcpSocket, inQueue, inQueueDataSize,
                   connectionDataMutex, outQueueMutex, inQueueMutex, wpc, buffer>>
    /\ UNCHANGED <<netVars, timeVars, syscalls, looseSockets, tgt, late, histVars, received, srvVars>>

\* an extraction loop that leaves a packet taken in part as it was
RECURSIVE ExtractLoopWhole(_, _, _, _, _)
ExtractLoopWhole(q, it, remainingBytes, data, packetsToRemove) ==
    IF it > Len(q) \/ remainingBytes <= 0
    THEN [queue |-> q, data |-> data, packetsToRemove |-> packetsToRemove]
    ELSE IF remainingBytes >= Len(q[it])
    THEN ExtractLoopWhole(q, it + 1, remainingBytes - Len(q[it]), data \o q[it],
                          packetsToRemove + 1)
    ELSE ExtractLoopWhole(q, it + 1, 0,
                          data \o Prefix(q[it], remainingBytes), packetsToRemove)

\* ------------------------------- TCPConnection::extractDataFromInQueue()
\* the for loop over the packets: it is the position of the iterator, q the
\* queue as modified so far, data the bytes collected
RECURSIVE ExtractLoop(_, _, _, _, _)
ExtractLoop(q, it, remainingBytes, data, packetsToRemove) ==
    IF it > Len(q) \/ remainingBytes <= 0
    THEN [queue |-> q, data |-> data, packetsToRemove |-> packetsToRemove]
    ELSE IF remainingBytes >= Len(q[it])
    THEN ExtractLoop(q, it + 1, remainingBytes - Len(q[it]), data \o q[it],
                     packetsToRemove + 1)
    ELSE ExtractLoop([q EXCEPT ![it] = Suffix(q[it], remainingBytes)], it + 1, 0,
                     data \o Prefix(q[it], remainingBytes), packetsToRemove)

\* extractDataFromInQueue without the test of inQueueDataSize < numBytes
extractWithoutSizeTest(q, size, numBytes) ==
    IF numBytes = 0
    THEN [data |-> <<>>, queue |-> q, size |-> size]
    ELSE LET r == ExtractLoop(q, 1, numBytes, <<>>, 0)
         IN [data |-> r.data,
             queue |-> IF r.packetsToRemove = Len(r.queue) THEN <<>>
                       ELSE Suffix(r.queue, r.packetsToRemove),
             size |-> size - numBytes]

\* extractDataFromInQueue(numBytes) on queue q with counter size: the bytes
\* returned, the queue and the counter afterwards
extractDataFromInQueue(q, size, numBytes) ==
    IF size < numBytes \/ numBytes = 0
    THEN [data |-> <<>>, queue |-> q, size |-> size]
    ELSE LET r == ExtractLoop(q, 1, numBytes, <<>>, 0)
         IN [data |-> r.data,
             queue |-> IF r.packetsToRemove = Len(r.queue) THEN <<>>
                       ELSE Suffix(r.queue, r.packetsToRemove),
             size |-> size - numBytes]

\* the caller of extractDataFromInQueue, holding inQueueMutex, returns
Extracted(t, op, numBytes) ==
    LET c == tgt[t]
        r == extractDataFromInQueue(inQueue[c], inQueueDataSize[c], numBytes)
    IN /\ inQueue' = [inQueue EXCEPT ![c] = r.queue]
       /\ inQueueDataSize' = [inQueueDataSize EXCEPT ![c] = r.size]
       /\ received' = Logged(received, c, r.data)
       /\ ReturnSeen(t, op, r.data, Len(inQueue[c]))

\* ------------------------------------------ TCPConnection::receiveData()
\* if (inQueueDataSize > 0), read without the lock
ReceiveAll_hint(t, c) ==
    /\ pc[t] = "idle" /\ exists[c] /\ MayCall("recv")
    /\ Count("recv")
    /\ tgt' = [tgt EXCEPT ![t] = c]
    /\ late' = [late EXCEPT ![t] = closeReturned[c]]
    /\ IF inQueueDataSize[c] > 0
       THEN /\ pc' = [pc EXCEPT ![t] = "ra_extract"]
            /\ ret' = NoRet
       ELSE Return(t, "receiveAll", <<>>)
    /\ UNCHANGED <<connVars, netVars, timeVars, syscalls, looseSockets, arg, closeReturned, limit, logVars, srvVars>>

\* receiveData() that does not take inQueueMutex
ReceiveAll_unlocked(t) ==
    /\ pc[t] = "ra_extract"
    /\ Extracted(t, "receiveAll", inQueueDataSize[tgt[t]])
    /\ UNCHANGED <<exists, state, tcpSocket, outQueue,
                   connectionDataMutex, outQueueMutex, inQueueMutex, wpc, buffer>>
    /\ UNCHANGED <<netVars, timeVars, syscalls, looseSockets, tgt, arg, late, histVars, sent, srvVars>>

\* lock inQueueMutex; return extractDataFromInQueue(inQueueDataSize);
ReceiveAll_extract(t) ==
    /\ pc[t] = "ra_extract"
    /\ inQueueMutex[tgt[t]] = "free"
    /\ Extracted(t, "receiveAll", inQueueDataSize[tgt[t]])
    /\ UNCHANGED <<exists, state, tcpSocket, outQueue,
                   connectionDataMutex, outQueueMutex, inQueueMutex, wpc, buffer>>
    /\ UNCHANGED <<netVars, timeVars, syscalls, looseSockets, tgt, arg, late, histVars, sent, srvVars>>

\* ---------------------------------- TCPConnection::receiveData(numBytes)
\* if (inQueueDataSize >= numBytes), read without the lock
ReceiveData_hint(t, c, numBytes) ==
    /\ pc[t] = "idle" /\ exists[c] /\ MayCall("recv")
    /\ Count("recv")
    /\ tgt' = [tgt EXCEPT ![t] = c]
    /\ late' = [late EXCEPT ![t] = closeReturned[c]]
    /\ IF inQueueDataSize[c] >= numBytes
       THEN /\ pc' = [pc EXCEPT ![t] = "rd_extract"]
            /\ arg' = [arg EXCEPT ![t] = <<numBytes>>]
            /\ ret' = NoRet
       ELSE /\ Return(t, "receiveData", <<>>)
            /\ UNCHANGED arg
    /\ UNCHANGED <<connVars, netVars, timeVars, syscalls, looseSockets, closeReturned, limit, logVars, srvVars>>

\* lock inQueueMutex; return extractDataFromInQueue(numBytes);
ReceiveData_extract(t) ==
    /\ pc[t] = "rd_extract"
    /\ inQueueMutex[tgt[t]] = "free"
    /\ Extracted(t, "receiveData", arg[t][1])
    /\ arg' = [arg EXCEPT ![t] = <<>>]
    /\ UNCHANGED <<exists, state, tcpSocket, outQueue,
                   connectionDataMutex, outQueueMutex, inQueueMutex, wpc, buffer>>
    /\ UNCHANGED <<netVars, timeVars, syscalls, looseSockets, tgt, late, histVars, sent, srvVars>>

\* ---------------------------------------- TCPConnection::receiveString()
\* the search for the delimiter: packages in order while !found, pos counts
\* the bytes passed before the delimiter
RECURSIVE SearchPackage(_, _, _, _)
SearchPackage(package, i, delimiter, pos) ==
    IF i > Len(package) THEN [found |-> FALSE, pos |-> pos]
    ELSE IF package[i] = delimiter THEN [found |-> TRUE, pos |-> pos]
    ELSE SearchPackage(package, i + 1, delimiter, pos + 1)

\* a search that looks into the first package only
SearchFirstPackage(q, package, delimiter, pos) ==
    IF package > Len(q) THEN [found |-> FALSE, pos |-> pos]
    ELSE SearchPackage(q[package], 1, delimiter, pos)

RECURSIVE SearchDelimiter(_, _, _, _)
SearchDelimiter(q, package, delimiter, pos) ==
    IF package > Len(q) THEN [found |-> FALSE, pos |-> pos]
    ELSE LET r == SearchPackage(q[package], 1, delimiter, pos)
         IN IF r.found THEN r ELSE SearchDelimiter(q, package + 1, delimiter, r.pos)

\* if (inQueueDataSize == 0) return "", read without the lock
ReceiveString_hint(t, c, delimiter) ==
    /\ pc[t] = "idle" /\ exists[c] /\ MayCall("recv")
    /\ Count("recv")
    /\ tgt' = [tgt EXCEPT ![t] = c]
    /\ late' = [late EXCEPT ![t] = closeReturned[c]]
    /\ IF inQueueDataSize[c] = 0
       THEN Return(t, "receiveString", <<>>)
       ELSE /\ pc' = [pc EXCEPT ![t] = "rs_extract"]
            /\ ret' = NoRet
    /\ arg' = [arg EXCEPT ![t] = <<delimiter>>]
    /\ UNCHANGED <<connVars, netVars, timeVars, syscalls, looseSockets, closeReturned, limit, logVars, srvVars>>

\* lock inQueueMutex; search; if (found) extractDataFromInQueue(pos + 1)
ReceiveString_extract(t) ==
    /\ pc[t] = "rs_extract"
    /\ inQueueMutex[tgt[t]] = "free"
    /\ LET r == SearchDelimiter(inQueue[tgt[t]], 1, arg[t][1], 0)
       IN IF r.found
          THEN Extracted(t, "receiveString", r.pos + 1)
          ELSE /\ ReturnSeen(t, "receiveString", <<>>, Len(inQueue[tgt[t]]))
               /\ UNCHANGED <<inQueue, inQueueDataSize, received, srvVars>>
    /\ arg' = [arg EXCEPT ![t] = <<>>]
    /\ UNCHANGED <<exists, state, tcpSocket, outQueue,
                   connectionDataMutex, outQueueMutex, inQueueMutex, wpc, buffer>>
    /\ UNCHANGED <<netVars, timeVars, syscalls, looseSockets, tgt, late, histVars, sent, srvVars>>

\* ------------------------------------------------ TCPConnection::close()
\* if (isOpen()) ...
Close_isOpen(t, c) ==
    /\ pc[t] = "idle" /\ exists[c] /\ MayCall("close")
    /\ Count("close")
    /\ tgt' = [tgt EXCEPT ![t] = c]
    /\ late' = [late EXCEPT ![t] = closeReturned[c]]
    /\ pc' = [pc EXCEPT ![t] = IF isOpen(c) THEN "cl_setState" ELSE "cl_isActive"]
    /\ ret' = NoRet
    /\ UNCHANGED <<connVars, netVars, timeVars, syscalls, looseSockets, arg, closeReturned, limit, logVars, srvVars>>

\* a close() that writes CLOSED itself
Close_setClosed(t) ==
    /\ pc[t] = "cl_setState"
    /\ state' = setState(tgt[t], "CLOSED")
    /\ pc' = [pc EXCEPT ![t] = "cl_isActive"]
    /\ UNCHANGED <<exists, tcpSocket, outQueue, inQueue, inQueueDataSize,
                   connectionDataMutex, outQueueMutex, inQueueMutex, wpc, buffer>>
    /\ UNCHANGED <<netVars, timeVars, syscalls, looseSockets, tgt, arg, ret, late, histVars, logVars, srvVars>>

\* ... setState(CLOSING);
Close_setState(t) ==
    /\ pc[t] = "cl_setState"
    /\ state' = setState(tgt[t], "CLOSING")
    /\ pc' = [pc EXCEPT ![t] = "cl_isActive"]
    /\ UNCHANGED <<exists, tcpSocket, outQueue, inQueue, inQueueDataSize,
                   connectionDataMutex, outQueueMutex, inQueueMutex, wpc, buffer>>
    /\ UNCHANGED <<netVars, timeVars, syscalls, looseSockets, tgt, arg, ret, late, histVars, logVars, srvVars>>

\* close() returns: to the caller, or into the loop of TCPServer::close(),
\* which calls it holding queueMutex
CloseReturn(t) ==
    /\ closeReturned' = [closeReturned EXCEPT ![tgt[t]] = TRUE]
    /\ IF queueMutex = t
       THEN pc' = [pc EXCEPT ![t] = "sc_pop"] /\ UNCHANGED ret
       ELSE Return(t, "close", <<>>)

\* close() that returns without joining the worker
Close_NoJoin(t) ==
    /\ pc[t] = "cl_isActive"
    /\ CloseReturn(t)
    /\ UNCHANGED <<connVars, netVars, timeVars, syscalls, looseSockets, tgt, arg, late, calls, limit, logVars, srvVars>>

\* if (UserThread::isActive()) ...
Close_isActive(t) ==
    /\ pc[t] = "cl_isActive"
    /\ IF isActive(tgt[t])
       THEN /\ pc' = [pc EXCEPT ![t] = "cl_join"]
            /\ UNCHANGED <<ret, closeReturned>>
       ELSE CloseReturn(t)
    /\ UNCHANGED <<connVars, netVars, timeVars, syscalls, looseSockets, tgt, arg, late, calls, limit, logVars, srvVars>>

\* ... UserThread::join(); blocks until run() has returned
Close_join(t) ==
    /\ pc[t] = "cl_join"
    /\ wpc[tgt[t]] = "done"
    /\ CloseReturn(t)
    /\ UNCHANGED <<connVars, netVars, timeVars, syscalls, looseSockets, tgt, arg, late, calls, limit, logVars, srvVars>>

\* ------------------------------------------------------------ TCPServer
\* bool isOpen() and void setState(s) of the server, under its stateMutex
serverIsOpen == serverState = "OPEN"

\* UserThread::isActive() of the server
serverIsActive == spc # "done"

\* outcome of poll(&set, 1, 5) on the listening socket
ServerPollResults ==
    IF backlog > 0 THEN {"pollin", "error", "hup"} ELSE {"timeout", "error", "hup"}

\* values accept() can return: a socket, or -1
AcceptResults == {"fd", "bad"}

\* the connection object that new TCPConnection(...) constructs next
NewConnection == CHOOSE c \in Conns : ~exists[c] /\ \A d \in Conns : d < c => exists[d]

\* set.fd = serverData->tcpServerSocket, under serverDataMutex, before the loop
S_Start ==
    /\ spc = "start" /\ serverDataMutex = "free"
    /\ spc' = "loop"
    /\ UNCHANGED <<serverState, tcpServerSocket, newConnectionsQueue, serverDataMutex,
                   queueMutex, clientSocket, backlog, accepted, returned,
                   serverCloseReturned>>
    /\ UNCHANGED <<connVars, netVars, timeVars, syscalls, looseSockets, thrVars, histVars, logVars>>

\* while (isOpen())
S_Loop ==
    /\ spc = "loop"
    /\ spc' = IF serverIsOpen THEN "poll" ELSE "close"
    /\ UNCHANGED <<serverState, tcpServerSocket, newConnectionsQueue, serverDataMutex,
                   queueMutex, clientSocket, backlog, accepted, returned,
                   serverCloseReturned>>
    /\ UNCHANGED <<connVars, netVars, timeVars, syscalls, looseSockets, thrVars, histVars, logVars>>

\* poll and the tests of result and revents
S_Poll ==
    /\ spc = "poll"
    /\ \E res \in ServerPollResults :
         spc' = CASE res = "timeout" -> "loop"
                  [] res = "pollin" -> "accept"
                  [] OTHER -> "fail"
    /\ UNCHANGED <<serverState, tcpServerSocket, newConnectionsQueue, serverDataMutex,
                   queueMutex, clientSocket, backlog, accepted, returned,
                   serverCloseReturned>>
    /\ UNCHANGED <<connVars, netVars, timeVars, syscalls, looseSockets, thrVars, histVars, logVars>>

\* setState(CLOSING); break;
S_Fail ==
    /\ spc = "fail"
    /\ serverState' = "CLOSING"
    /\ spc' = "close"
    /\ UNCHANGED <<tcpServerSocket, newConnectionsQueue, serverDataMutex,
                   queueMutex, clientSocket, backlog, accepted, returned,
                   serverCloseReturned>>
    /\ UNCHANGED <<connVars, netVars, timeVars, syscalls, looseSockets, thrVars, histVars, logVars>>

\* lockS; clientSocket = accept(...): the result is not tested
S_Accept ==
    /\ spc = "accept" /\ serverDataMutex = "free"
    /\ serverDataMutex' = "worker"
    /\ \E r \in AcceptResults : clientSocket' = r
    /\ backlog' = backlog - 1
    /\ spc' = "push"
    /\ UNCHANGED <<serverState, tcpServerSocket, newConnectionsQueue,
                   queueMutex, accepted, returned, serverCloseReturned>>
    /\ UNCHANGED <<connVars, netVars, timeVars, syscalls, looseSockets, thrVars, histVars, logVars>>

\* lockQ; newConnectionsQueue.push_back(new TCPConnection(clientSocket, ...));
\* the constructor starts the connection's worker; both locks are released
S_Push ==
    /\ spc = "push" /\ queueMutex = "free"
    /\ LET c == NewConnection
       IN /\ exists' = [exists EXCEPT ![c] = TRUE]
          /\ tcpSocket' = [tcpSocket EXCEPT ![c] = clientSocket]
          /\ newConnectionsQueue' = Append(newConnectionsQueue, c)
          /\ accepted' = Append(accepted, c)
    /\ serverDataMutex' = "free"
    /\ clientSocket' = "none"
    /\ spc' = "loop"
    /\ UNCHANGED <<serverState, tcpServerSocket, queueMutex, backlog, returned,
                   serverCloseReturned>>
    /\ UNCHANGED <<state, outQueue, inQueue, inQueueDataSize, connectionDataMutex,
                   outQueueMutex, inQueueMutex, wpc, buffer>>
    /\ UNCHANGED <<netVars, timeVars, syscalls, looseSockets, thrVars, histVars, logVars>>

\* after the loop: ::close(tcpServerSocket); tcpServerSocket = 0, under lockS
S_Close ==
    /\ spc = "close" /\ serverDataMutex = "free"
    /\ tcpServerSocket' = "closed"
    /\ spc' = "closed"
    /\ UNCHANGED <<serverState, newConnectionsQueue, serverDataMutex,
                   queueMutex, clientSocket, backlog, accepted, returned,
                   serverCloseReturned>>
    /\ UNCHANGED <<connVars, netVars, timeVars, syscalls, looseSockets, thrVars, histVars, logVars>>

\* setState(CLOSED); run() returns
S_Closed ==
    /\ spc = "closed"
    /\ serverState' = "CLOSED"
    /\ spc' = "done"
    /\ UNCHANGED <<tcpServerSocket, newConnectionsQueue, serverDataMutex,
                   queueMutex, clientSocket, backlog, accepted, returned,
                   serverCloseReturned>>
    /\ UNCHANGED <<connVars, netVars, timeVars, syscalls, looseSockets, thrVars, histVars, logVars>>

ServerWorker ==
    \/ S_Start \/ S_Loop \/ S_Poll \/ S_Fail
    \/ S_Accept \/ S_Push \/ S_Close \/ S_Closed

\* getIncomingConnection that takes the newest pending connection
GetNewestConnection(t) ==
    /\ pc[t] = "idle" /\ spc # "none" /\ MayCall("get")
    /\ queueMutex = "free"
    /\ Count("get")
    /\ LET q == newConnectionsQueue
           connection == IF q # <<>> THEN <<q[Len(q)]>> ELSE <<>>
       IN /\ newConnectionsQueue' = IF q # <<>> THEN Prefix(q, Len(q) - 1) ELSE q
          /\ returned' = returned \o connection
          /\ Return(t, "getIncomingConnection", connection)
    /\ UNCHANGED <<serverState, tcpServerSocket, serverDataMutex, queueMutex, spc,
                   clientSocket, backlog, accepted, serverCloseReturned>>
    /\ UNCHANGED <<connVars, netVars, timeVars, syscalls, looseSockets, tgt, arg, late, closeReturned, limit, logVars>>

\* TCPServer::getIncomingConnection(): under queueMutex, the front of the
\* queue is taken off and returned if there is one, else a null reference
getIncomingConnection(t) ==
    /\ pc[t] = "idle" /\ spc # "none" /\ MayCall("get")
    /\ queueMutex = "free"
    /\ Count("get")
    /\ LET q == newConnectionsQueue
           connection == IF q # <<>> THEN <<Head(q)>> ELSE <<>>
       IN /\ newConnectionsQueue' = IF q # <<>> THEN Tail(q) ELSE q
          /\ returned' = returned \o connection
          /\ Return(t, "getIncomingConnection", connection)
    /\ UNCHANGED <<serverState, tcpServerSocket, serverDataMutex, queueMutex, spc,
                   clientSocket, backlog, accepted, serverCloseReturned>>
    /\ UNCHANGED <<connVars, netVars, timeVars, syscalls, looseSockets, tgt, arg, late, closeReturned, limit, logVars>>

\* TCPServer::close(): auto lock = createLock(*queueMutex)
ServerClose_lock(t) ==
    /\ pc[t] = "idle" /\ spc # "none" /\ MayCall("serverClose")
    /\ queueMutex = "free"
    /\ Count("serverClose")
    /\ queueMutex' = t
    /\ pc' = [pc EXCEPT ![t] = "sc_drain"]
    /\ ret' = NoRet
    /\ UNCHANGED <<serverState, tcpServerSocket, newConnectionsQueue, serverDataMutex,
                   spc, clientSocket, backlog, accepted, returned, serverCloseReturned>>
    /\ UNCHANGED <<connVars, netVars, timeVars, syscalls, looseSockets, tgt, arg, late, closeReturned, limit, logVars>>

\* a TCPServer::close() that keeps queueMutex to its end
ServerClose_drainLocked(t) ==
    /\ pc[t] = "sc_drain"
    /\ IF newConnectionsQueue = <<>>
       THEN /\ UNCHANGED queueMutex
            /\ pc' = [pc EXCEPT ![t] = "sc_isOpen"]
            /\ UNCHANGED <<tgt, late>>
       ELSE LET c == Head(newConnectionsQueue)
            IN /\ tgt' = [tgt EXCEPT ![t] = c]
               /\ late' = [late EXCEPT ![t] = closeReturned[c]]
               /\ pc' = [pc EXCEPT ![t] =
                            IF isOpen(c) THEN "cl_setState" ELSE "cl_isActive"]
               /\ UNCHANGED queueMutex
    /\ UNCHANGED <<serverState, tcpServerSocket, newConnectionsQueue, serverDataMutex,
                   spc, clientSocket, backlog, accepted, returned, serverCloseReturned>>
    /\ UNCHANGED <<connVars, netVars, timeVars, syscalls, looseSockets, arg, ret, histVars, logVars>>

\* while (!newConnectionsQueue.empty()) newConnectionsQueue.front()->close();
\* with the queue empty the lock is released
ServerClose_drain(t) ==
    /\ pc[t] = "sc_drain"
    /\ IF newConnectionsQueue = <<>>
       THEN /\ queueMutex' = "free"
            /\ pc' = [pc EXCEPT ![t] = "sc_isOpen"]
            /\ UNCHANGED <<tgt, late>>
       ELSE LET c == Head(newConnectionsQueue)
            IN /\ tgt' = [tgt EXCEPT ![t] = c]
               /\ late' = [late EXCEPT ![t] = closeReturned[c]]
               /\ pc' = [pc EXCEPT ![t] =
                            IF isOpen(c) THEN "cl_setState" ELSE "cl_isActive"]
               /\ UNCHANGED queueMutex
    /\ UNCHANGED <<serverState, tcpServerSocket, newConnectionsQueue, serverDataMutex,
                   spc, clientSocket, backlog, accepted, returned, serverCloseReturned>>
    /\ UNCHANGED <<connVars, netVars, timeVars, syscalls, looseSockets, arg, ret, histVars, logVars>>

\* newConnectionsQueue.pop_front();
ServerClose_pop(t) ==
    /\ pc[t] = "sc_pop"
    /\ newConnectionsQueue' = Tail(newConnectionsQueue)
    /\ pc' = [pc EXCEPT ![t] = "sc_drain"]
    /\ UNCHANGED <<serverState, tcpServerSocket, serverDataMutex, queueMutex,
                   spc, clientSocket, backlog, accepted, returned, serverCloseReturned>>
    /\ UNCHANGED <<connVars, netVars, timeVars, syscalls, looseSockets, tgt, arg, ret, late, histVars, logVars>>

\* if (isOpen()) ...
ServerClose_isOpen(t) ==
    /\ pc[t] = "sc_isOpen"
    /\ pc' = [pc EXCEPT ![t] = IF serverIsOpen THEN "sc_setState" ELSE "sc_isActive"]
    /\ UNCHANGED <<connVars, netVars, timeVars, syscalls, looseSockets, tgt, arg, ret, late, histVars, logVars, srvVars>>

\* ... setState(CLOSING);
ServerClose_setState(t) ==
    /\ pc[t] = "sc_setState"
    /\ serverState' = "CLOSING"
    /\ pc' = [pc EXCEPT ![t] = "sc_isActive"]
    /\ UNCHANGED <<tcpServerSocket, newConnectionsQueue, serverDataMutex, queueMutex,
                   spc, clientSocket, backlog, accepted, returned, serverCloseReturned>>
    /\ UNCHANGED <<connVars, netVars, timeVars, syscalls, looseSockets, tgt, arg, ret, late, histVars, logVars>>

ServerCloseReturn(t) ==
    /\ Return(t, "serverClose", <<>>)
    /\ serverCloseReturned' = TRUE

\* if (UserThread::isActive()) ...
ServerClose_isActive(t) ==
    /\ pc[t] = "sc_isActive"
    /\ IF serverIsActive
       THEN /\ pc' = [pc EXCEPT ![t] = "sc_join"]
            /\ UNCHANGED <<ret, serverCloseReturned>>
       ELSE ServerCloseReturn(t)
    /\ UNCHANGED <<serverState, tcpServerSocket, newConnectionsQueue, serverDataMutex,
                   queueMutex, spc, clientSocket, backlog, accepted, returned>>
    /\ UNCHANGED <<connVars, netVars, timeVars, syscalls, looseSockets, tgt, arg, late, histVars, logVars>>

\* ... UserThread::join(); blocks until run() has returned
ServerClose_join(t) ==
    /\ pc[t] = "sc_join"
    /\ spc = "done"
    /\ ServerCloseReturn(t)
    /\ UNCHANGED <<serverState, tcpServerSocket, newConnectionsQueue, serverDataMutex,
                   queueMutex, spc, clientSocket, backlog, accepted, returned>>
    /\ UNCHANGED <<connVars, netVars, timeVars, syscalls, looseSockets, tgt, arg, late, histVars, logVars>>

\* ------------------------------------------------------------- factories
\* how TCPConnection::connect(remoteIp) can go: socket() fails, ::connect
\* fails, or both succeed and the object is constructed
ConnectOutcomes == {"socket", "connect", "ok"}

\* TCPConnection::connect: socket(); ::connect(); setsockopt (result not
\* looked at); new TCPConnection, whose constructor starts the worker.  Each
\* failure returns nullptr at once
Connect(t, outcome) ==
    /\ pc[t] = "idle" /\ MayCall("connect")
    /\ Count("connect")
    /\ outcome = "ok" => \E c \in Conns : ~exists[c]
    /\ CASE outcome = "socket" ->
              /\ Return(t, "connect", <<>>)
              /\ UNCHANGED <<exists, looseSockets>>
         [] outcome = "connect" ->
              /\ looseSockets' = looseSockets + 1
              /\ Return(t, "connect", <<>>)
              /\ UNCHANGED exists
         [] outcome = "ok" ->
              /\ exists' = [exists EXCEPT ![NewConnection] = TRUE]
              /\ Return(t, "connect", <<NewConnection>>)
              /\ UNCHANGED looseSockets
    /\ UNCHANGED <<state, tcpSocket, outQueue, inQueue, inQueueDataSize,
                   connectionDataMutex, outQueueMutex, inQueueMutex, wpc, buffer>>
    /\ UNCHANGED <<netVars, timeVars, syscalls, tgt, arg, late, closeReturned, limit,
                   logVars, srvVars>>

\* how TCPServer::create(port) can go: the call that fails, or none
CreateOutcomes == {"socket", "setsockopt", "bind", "listen", "ok"}

\* TCPServer::create: socket(); setsockopt twice; ::bind(); listen(); new
\* TCPServer, whose constructor starts the worker.  Each failure returns
\* nullptr at once.  The model has one server object
Create(t, outcome) ==
    /\ pc[t] = "idle" /\ MayCall("create")
    /\ Count("create")
    /\ outcome = "ok" => spc = "none"
    /\ CASE outcome = "socket" ->
              /\ Return(t, "create", <<>>)
              /\ UNCHANGED <<spc, looseSockets>>
         [] outcome \in {"setsockopt", "bind", "listen"} ->
              /\ looseSockets' = looseSockets + 1
              /\ Return(t, "create", <<>>)
              /\ UNCHANGED spc
         [] outcome = "ok" ->
              /\ spc' = "start"
              /\ Return(t, "create", <<1>>)
              /\ UNCHANGED looseSockets
    /\ UNCHANGED <<serverState, tcpServerSocket, newConnectionsQueue, serverDataMutex,
                   queueMutex, clientSocket, backlog, accepted, returned,
                   serverCloseReturned>>
    /\ UNCHANGED <<connVars, netVars, timeVars, syscalls, tgt, arg, late, closeReturned,
                   limit, logVars>>

\* a client connects to the listening socket; there are as many clients as
\* connection objects
RemoteConnect ==
    /\ spc # "none" /\ tcpServerSocket = "fd"
    /\ backlog + Cardinality({c \in Conns : exists[c]})
         + (IF clientSocket = "none" THEN 0 ELSE 1) < Cardinality(Conns)
    /\ backlog' = backlog + 1
    /\ UNCHANGED <<serverState, tcpServerSocket, newConnectionsQueue, serverDataMutex,
                   queueMutex, spc, clientSocket, accepted, returned,
                   serverCloseReturned>>
    /\ UNCHANGED <<connVars, netVars, timeVars, syscalls, looseSockets, thrVars, histVars, logVars>>

\* ------------------------------------------------------ the remote host
\* the remote side of a socket writes one byte
RemoteSend(c, b) ==
    /\ exists[c] /\ link[c] = 0 /\ tcpSocket[c] = "fd" /\ ~netFin[c]
    /\ MayCall("bytes")
    /\ Count("bytes")
    /\ netIn' = [netIn EXCEPT ![c] = Append(@, b)]
    /\ UNCHANGED <<connVars, link, netFin, netOut, thrVars, closeReturned, limit, logVars,
                   srvVars, timeVars, syscalls, looseSockets>>

\* the remote side closes its socket
RemoteClose(c) ==
    /\ exists[c] /\ link[c] = 0 /\ tcpSocket[c] = "fd" /\ ~netFin[c]
    /\ netFin' = [netFin EXCEPT ![c] = TRUE]
    /\ UNCHANGED <<connVars, link, netIn, netOut, thrVars, histVars, logVars, srvVars,
                   timeVars, syscalls, looseSockets>>

\* ------------------------------------------------------- specifications
NoCalls == [o \in Ops |-> 0]

\* the connections in E constructed (state(OPEN), inQueueDataSize(0), thread
\* started), with sockets linked as L says
InitConns(E, L) ==
    /\ exists = [c \in Conns |-> c \in E]
    /\ state = [c \in Conns |-> "OPEN"]
    /\ tcpSocket = [c \in Conns |-> "fd"]
    /\ outQueue = [c \in Conns |-> <<>>]
    /\ inQueue = [c \in Conns |-> <<>>]
    /\ inQueueDataSize = [c \in Conns |-> 0]
    /\ connectionDataMutex = [c \in Conns |-> "free"]
    /\ outQueueMutex = [c \in Conns |-> "free"]
    /\ inQueueMutex = [c \in Conns |-> "free"]
    /\ wpc = [c \in Conns |-> "start"]
    /\ buffer = [c \in Conns |-> <<>>]
    /\ link = L
    /\ netIn = [c \in Conns |-> <<>>]
    /\ netFin = [c \in Conns |-> FALSE]
    /\ netOut = [c \in Conns |-> <<>>]
    /\ now = 0
    /\ lastActiveTime = [c \in Conns |-> 0]
    /\ activeAt = [c \in Conns |-> 0]
    /\ syscalls = [c \in Conns |-> 0]
    /\ looseSockets = 0

InitThreads ==
    /\ pc = [t \in Callers |-> "idle"]
    /\ tgt = [t \in Callers |-> 1]
    /\ arg = [t \in Callers |-> <<>>]
    /\ ret = NoRet
    /\ late = [t \in Callers |-> FALSE]
    /\ closeReturned = [c \in Conns |-> FALSE]
    /\ calls = NoCalls
    /\ sent = [c \in Conns |-> <<>>]
    /\ received = [c \in Conns |-> <<>>]

\* no TCPServer has been created
NoServer ==
    /\ serverState = "OPEN" /\ tcpServerSocket = "fd"
    /\ newConnectionsQueue = <<>>
    /\ serverDataMutex = "free" /\ queueMutex = "free"
    /\ spc = "none" /\ clientSocket = "none" /\ backlog = 0
    /\ accepted = <<>> /\ returned = <<>>
    /\ serverCloseReturned = FALSE

\* Life cycle of one connection to a remote host: callers send and close
Init ==
    /\ InitConns({1}, [c \in Conns |-> 0])
    /\ InitThreads /\ NoServer
    /\ limit = [NoCalls EXCEPT !["send"] = MaxSendCalls, !["close"] = MaxCloseCalls,
                               !["bytes"] = MaxRemoteBytes]

Next ==
    \/ \E c \in Conns : Worker(c)
    \/ \E t \in Callers, c \in Conns, data \in LifePayloads : SendData_isOpen(t, c, data)
    \/ \E t \in Callers : SendData_enqueue(t)
    \/ \E t \in Callers, c \in Conns : Close_isOpen(t, c)
    \/ \E t \in Callers : Close_setState(t)
    \/ \E t \in Callers : Close_isActive(t)
    \/ \E t \in Callers : Close_join(t)
    \/ \E c \in Conns, b \in Bytes : RemoteSend(c, b)
    \/ \E c \in Conns : RemoteClose(c)

Spec == Init /\ [][Next]_vars

\* The life cycle on a clock that advances: Timer::now() never goes back, and
\* reads the same until the clock has advanced
Tick ==
    /\ now < MaxTime
    /\ now' = now + 1
    /\ UNCHANGED <<connVars, netVars, thrVars, histVars, logVars, srvVars,
                   lastActiveTime, activeAt, syscalls, looseSockets>>

NextTime == Next \/ Tick

SpecTime == Init /\ [][NextTime]_vars

\* Receiving: the remote host sends bytes and may close, callers receive
InitRecv ==
    /\ InitConns({1}, [c \in Conns |-> 0])
    /\ InitThreads /\ NoServer
    /\ limit = [NoCalls EXCEPT !["recv"] = RecvCalls, !["bytes"] = RecvBytes]

NextRecv ==
    \/ \E c \in Conns : Worker(c)
    \/ \E t \in Callers, c \in Conns : ReceiveAll_hint(t, c)
    \/ \E t \in Callers : ReceiveAll_extract(t)
    \/ \E t \in Callers, c \in Conns, n \in 0 .. MaxNumBytes : ReceiveData_hint(t, c, n)
    \/ \E t \in Callers : ReceiveData_extract(t)
    \/ \E t \in Callers, c \in Conns, d \in Bytes : ReceiveString_hint(t, c, d)
    \/ \E t \in Callers : ReceiveString_extract(t)
    \/ \E c \in Conns, b \in Bytes : RemoteSend(c, b)
    \/ \E c \in Conns : RemoteClose(c)

SpecRecv == InitRecv /\ [][NextRecv]_vars

\* Extraction on its own: the worker of connection 1 has queued some chunks,
\* each of them what one recv returned (1 .. BufferSize bytes), and waits in
\* poll; one thread calls receiveData() or receiveData(numBytes) once
Chunks == UNION {[1 .. k -> Bytes] : k \in 1 .. BufferSize}
Queues == UNION {[1 .. m -> Chunks] : m \in 0 .. MaxChunks}
ExtractCallers == {"t1"}

InitExtract ==
    /\ exists = [c \in Conns |-> c = 1]
    /\ state = [c \in Conns |-> "OPEN"]
    /\ tcpSocket = [c \in Conns |-> "fd"]
    /\ outQueue = [c \in Conns |-> <<>>]
    /\ \E q \in Queues :
         /\ inQueue = [c \in Conns |-> IF c = 1 THEN q ELSE <<>>]
         /\ inQueueDataSize = [c \in Conns |-> IF c = 1 THEN Len(Flatten(q)) ELSE 0]
    /\ connectionDataMutex = [c \in Conns |-> "free"]
    /\ outQueueMutex = [c \in Conns |-> "free"]
    /\ inQueueMutex = [c \in Conns |-> "free"]
    /\ wpc = [c \in Conns |-> IF c = 1 THEN "poll" ELSE "start"]
    /\ buffer = [c \in Conns |-> <<>>]
    /\ link = [c \in Conns |-> 0]
    /\ netIn = [c \in Conns |-> <<>>]
    /\ netFin = [c \in Conns |-> FALSE]
    /\ netOut = [c \in Conns |-> <<>>]
    /\ now = 0
    /\ lastActiveTime = [c \in Conns |-> 0]
    /\ activeAt = [c \in Conns |-> 0]
    /\ syscalls = [c \in Conns |-> 0]
    /\ looseSockets = 0
    /\ InitThreads /\ NoServer
    /\ limit = [NoCalls EXCEPT !["recv"] = Cardinality(ExtractCallers)]

NextExtract ==
    \/ \E t \in ExtractCallers : ReceiveAll_hint(t, 1)
    \/ \E t \in ExtractCallers : ReceiveAll_extract(t)
    \/ \E t \in ExtractCallers, n \in 0 .. MaxNumBytes : ReceiveData_hint(t, 1, n)
    \/ \E t \in ExtractCallers : ReceiveData_extract(t)

SpecExtract == InitExtract /\ [][NextExtract]_vars

\* The factories: no object exists yet; threads call connect and create
InitFactory ==
    /\ InitConns({}, [c \in Conns |-> 0])
    /\ InitThreads /\ NoServer
    /\ limit = [NoCalls EXCEPT !["connect"] = FactoryCalls, !["create"] = FactoryCalls]

NextFactory ==
    \/ \E t \in Callers, outcome \in ConnectOutcomes : Connect(t, outcome)
    \/ \E t \in Callers, outcome \in CreateOutcomes : Create(t, outcome)

SpecFactory == InitFactory /\ [][NextFactory]_vars

\* A connected pair: the sockets of connections 1 and 2 lead to each other;
\* one thread sends on PairSender, one receives on PairReceiver (strings up
\* to the default delimiter).  The worker threads are scheduled fairly: a
\* worker that can take a step eventually takes one.
PairEnds == <<1, 2>>
PairSender == PairEnds[1]
PairReceiver == PairEnds[2]
PairSenders == {"t1"}      \* threads calling sendData on PairSender
PairReceivers == {"t2"}    \* threads calling receive operations on PairReceiver

\* the payload of the k-th sendData call on the pair
PairPayload(k) == IF k % 2 = 1 THEN <<1>> ELSE <<0, 1>>

InitPair ==
    /\ InitConns({PairSender, PairReceiver},
                 [c \in Conns |-> IF c = PairSender THEN PairReceiver ELSE PairSender])
    /\ InitThreads /\ NoServer
    /\ limit = [NoCalls EXCEPT !["send"] = PairSends, !["recv"] = PairRecvs]

NextPair ==
    \/ \E c \in Conns : Worker(c)
    \/ \E t \in PairSenders :
         SendData_isOpen(t, PairSender, PairPayload(calls["send"] + 1))
    \/ \E t \in PairSenders : SendData_enqueue(t)
    \/ \E t \in PairReceivers : ReceiveAll_hint(t, PairReceiver)
    \/ \E t \in PairReceivers : ReceiveAll_extract(t)
    \/ \E t \in PairReceivers, n \in 1 .. MaxNumBytes : ReceiveData_hint(t, PairReceiver, n)
    \/ \E t \in PairReceivers : ReceiveData_extract(t)
    \/ \E t \in PairReceivers : ReceiveString_hint(t, PairReceiver, DefaultDelimiter)
    \/ \E t \in PairReceivers : ReceiveString_extract(t)

SpecPair ==
    InitPair /\ [][NextPair]_vars /\ \A c \in Conns : WF_vars(Worker(c))

\* A server: clients connect, the worker accepts them, threads pick the
\* connections up and one of them closes the server; one of the clients
\* writes its greeting
ServerGetters == Callers   \* threads calling getIncomingConnection
ServerClosers == {"t1"}    \* threads calling TCPServer::close

InitServer ==
    /\ InitConns({}, [c \in Conns |-> 0])
    /\ InitThreads
    /\ serverState = "OPEN" /\ tcpServerSocket = "fd"
    /\ newConnectionsQueue = <<>>
    /\ serverDataMutex = "free" /\ queueMutex = "free"
    /\ spc = "start" /\ clientSocket = "none" /\ backlog = 0
    /\ accepted = <<>> /\ returned = <<>>
    /\ serverCloseReturned = FALSE
    /\ limit = [NoCalls EXCEPT !["get"] = GetCalls, !["serverClose"] = ServerCloseCalls,
                               !["bytes"] = Len(Greeting)]

NextServer ==
    \/ ServerWorker
    \/ RemoteConnect
    \/ \E c \in Conns : RemoteSend(c, Greeting[1])
    \/ \E c \in Conns : Worker(c)
    \/ \E t \in ServerGetters : getIncomingConnection(t)
    \/ \E t \in ServerClosers : ServerClose_lock(t)
    \/ \E t \in ServerClosers : ServerClose_drain(t)
    \/ \E t \in ServerClosers : ServerClose_pop(t)
    \/ \E t \in ServerClosers : ServerClose_isOpen(t)
    \/ \E t \in ServerClosers : ServerClose_setState(t)
    \/ \E t \in ServerClosers : ServerClose_isActive(t)
    \/ \E t \in ServerClosers : ServerClose_join(t)
    \/ \E t \in ServerClosers : Close_setState(t)
    \/ \E t \in ServerClosers : Close_isActive(t)
    \/ \E t \in ServerClosers : Close_join(t)

SpecServer == InitServer /\ [][NextServer]_vars

\* ================================================================ claims
Rank(s) == CASE s = "OPEN" -> 0 [] s = "CLOSING" -> 1 [] s = "CLOSED" -> 2

ClosePcs == {"cl_setState", "cl_isActive", "cl_join"}

\* the step begins a call of op by caller t: the call either returns in the
\* same step (ret' is its return) or leaves t inside the operation
Begins(t, op) ==
    /\ calls'[op] # calls[op]
    /\ pc[t] = "idle"
    /\ pc'[t] # "idle" \/ ret'.by = t

\* the step is one of caller t inside close()
CloseStep(t) == Begins(t, "close") \/ (pc[t] \in ClosePcs /\ pc'[t] # pc[t])

\* C1: the state of a connection and of a server only ever progresses OPEN -> CLOSING ->
\* CLOSED: no step writes an earlier state over a later one.
C1_StateMonotonic ==
    [][/\ \A c \in Conns : Rank(state'[c]) >= Rank(state[c])
       /\ Rank(serverState') >= Rank(serverState)]_vars

\* C2: once a close() on a connection has returned, the connection is not
\* open, its worker has terminated and its socket is closed; and no step of
\* a close() call that began after that changes state, queues or socket.
C2_AfterClose ==
    \A c \in Conns : closeReturned[c] =>
        ~isOpen(c) /\ ~isActive(c) /\ tcpSocket[c] = "closed"

C2_LateCloseNoop ==
    \A t \in Callers : CloseStep(t) /\ late'[t] =>
        UNCHANGED <<state, outQueue, inQueue, inQueueDataSize, tcpSocket, wpc>>

C2_CloseContract == []C2_AfterClose /\ [][C2_LateCloseNoop]_vars

\* C2 witness: two callers have returned from close(), one of them from a
\* call that began after a close() had already returned
C2_Witness ==
    /\ \A t \in Callers : pc[t] = "idle"
    /\ calls["close"] = 2 /\ ret.op = "close" /\ late[ret.by]
    /\ closeReturned[1]

\* C6: sendData that finds the state CLOSING or CLOSED returns false and
\* leaves outQueue alone; every sendData that begins after a close() has
\* returned does so, and from then on nothing more is written to the socket;
\* sendData that finds the state OPEN returns true, having appended its
\* payload as one chunk at the tail of outQueue.
C6_Rejects(t) ==
    Begins(t, "send") /\ (~isOpen(tgt'[t]) \/ late'[t]) =>
        /\ pc'[t] = "idle" /\ ret' = Ret(t, "sendData", FALSE, 0)
        /\ outQueue' = outQueue

C6_Accepts(t) ==
    /\ Begins(t, "send") /\ isOpen(tgt'[t]) =>
        pc'[t] = "sd_enqueue" /\ outQueue' = outQueue
    /\ pc[t] = "sd_enqueue" /\ pc'[t] # pc[t] =>
        /\ pc'[t] = "idle" /\ ret' = Ret(t, "sendData", TRUE, 0)
        /\ outQueue' = [outQueue EXCEPT ![tgt[t]] = Append(@, arg[t])]

C6_SilentAfterClose ==
    \A c \in Conns : closeReturned[c] => netOut'[c] = netOut[c]

C6_SendDataContract ==
    [][/\ \A t \in Callers : C6_Rejects(t) /\ C6_Accepts(t)
       /\ C6_SilentAfterClose]_vars

\* C6 witness: a sendData was accepted and its payload written to the socket;
\* another one, begun after close() returned, has returned false
C6_Witness ==
    \E u \in Callers :
        /\ pc[u] = "idle" /\ ret = Ret(u, "sendData", FALSE, 0) /\ late[u]
        /\ closeReturned[1] /\ netOut[1] \in LifePayloads

\* C7: a chunk is appended to outQueue only while the state is OPEN.
C7_GrowsOnlyWhileOpen ==
    [][\A c \in Conns : Len(outQueue'[c]) > Len(outQueue[c]) => isOpen(c)]_vars

\* ------------------------------------------------------------ receiving
Occurs(d, bytes) == \E i \in 1 .. Len(bytes) : bytes[i] = d

\* 1-based position of the first d in bytes
FirstIndex(d, bytes) ==
    CHOOSE i \in 1 .. Len(bytes) : bytes[i] = d /\ \A j \in 1 .. (i - 1) : bytes[j] # d

\* caller t returns from op in this step, without having taken the lock
ReturnsAtHint(t, op) ==
    Begins(t, "recv") /\ pc'[t] = "idle" /\ ret'.op = op

\* caller t performs the locked section of its receive operation
LockedStep(t, at) == pc[t] = at /\ pc'[t] # pc[t]

Untouched(c) == inQueue'[c] = inQueue[c] /\ inQueueDataSize'[c] = inQueueDataSize[c]

\* C4: receiveData(n) returns, under inQueueMutex, exactly the next n bytes
\* and lowers inQueueDataSize by n if inQueueDataSize >= n there; otherwise
\* (also when it returns at the unlocked test) the result is empty and queue
\* and counter are as before.  The result has n bytes or none.
C4_Locked(t) ==
    LET c == tgt[t]
        n == arg[t][1]
        all == Flatten(inQueue[c])
    IN LockedStep(t, "rd_extract") =>
        /\ inQueueMutex[c] = "free" /\ ret'.op = "receiveData"
        /\ IF inQueueDataSize[c] >= n
           THEN /\ ret'.val = Prefix(all, n)
                /\ Flatten(inQueue'[c]) = Suffix(all, n)
                /\ inQueueDataSize'[c] = inQueueDataSize[c] - n
           ELSE ret'.val = <<>> /\ Untouched(c)
        /\ Len(ret'.val) \in {0, n}

C4_ReceiveDataAtomic ==
    [][\A t \in Callers :
         /\ C4_Locked(t)
         /\ ReturnsAtHint(t, "receiveData") =>
              ret'.val = <<>> /\ Untouched(tgt'[t])]_vars

\* C4 witness: a receiveData(n) is about to run its locked section with fewer
\* than n bytes left (another receiver took them after the unlocked test),
\* and the other caller has received two bytes
C4_Witness ==
    \E t, u \in Callers :
        /\ pc[t] = "rd_extract" /\ inQueueDataSize[tgt[t]] < arg[t][1]
        /\ pc[u] = "idle" /\ ret.by = u /\ ret.op = "receiveData" /\ Len(ret.val) = 2

\* C10: receiveData() returns, under inQueueMutex, all bytes of all chunks
\* of inQueue in order and leaves inQueue empty and inQueueDataSize 0; the
\* worker is not between appending a chunk and counting it at that moment.
C10_Locked(t) ==
    LET c == tgt[t]
    IN LockedStep(t, "ra_extract") =>
        /\ inQueueMutex[c] = "free" /\ wpc[c] # "count"
        /\ ret'.op = "receiveAll" /\ ret'.val = Flatten(inQueue[c])
        /\ inQueue'[c] = <<>> /\ inQueueDataSize'[c] = 0

C10_ReceiveAllDrains ==
    [][\A t \in Callers :
         /\ C10_Locked(t)
         /\ ReturnsAtHint(t, "receiveAll") =>
              ret'.val = <<>> /\ Untouched(tgt'[t])]_vars

\* C10 witness: a receiveData() has returned the bytes of two chunks
C10_Witness ==
    \E t \in Callers :
        /\ pc[t] = "idle" /\ ret.by = t /\ ret.op = "receiveAll"
        /\ Len(ret.val) = 2 /\ ret.chunks = 2
        /\ inQueue[1] = <<>> /\ inQueueDataSize[1] = 0

\* C5 as stated: the result of receiveString(d) is non-empty if and only if
\* a byte d is stored in inQueue; then it is the bytes up to and including
\* the first d, which are removed; otherwise nothing changes.
C5_Result(t, c, d, all) ==
    /\ ret'.op = "receiveString"
    /\ IF Occurs(d, all)
       THEN LET p == FirstIndex(d, all)
            IN /\ ret'.val = Prefix(all, p) /\ ret'.val # <<>>
               /\ \A i \in 1 .. Len(ret'.val) :
                    ret'.val[i] = d <=> i = Len(ret'.val)
               /\ Flatten(inQueue'[c]) = Suffix(all, p)
               /\ inQueueDataSize'[c] = inQueueDataSize[c] - p
       ELSE ret'.val = <<>> /\ Untouched(c)

C5_ReceiveStringIff ==
    [][\A t \in Callers :
         /\ LockedStep(t, "rs_extract") =>
              C5_Result(t, tgt[t], arg[t][1], Flatten(inQueue[tgt[t]]))
         /\ ReturnsAtHint(t, "receiveString") =>
              C5_Result(t, tgt'[t], arg'[t][1], Flatten(inQueue[tgt'[t]]))]_vars

\* C5 amended: that holds of a receiveString(d) that inspects inQueue, under
\* inQueueMutex; one whose unlocked read of inQueueDataSize gives 0 returns
\* empty and changes nothing, and inQueue holds no byte then unless the
\* worker has appended a chunk that it has not counted yet.
C5_ReceiveStringLocked ==
    [][\A t \in Callers :
         /\ LockedStep(t, "rs_extract") =>
              /\ inQueueMutex[tgt[t]] = "free"
              /\ C5_Result(t, tgt[t], arg[t][1], Flatten(inQueue[tgt[t]]))
         /\ ReturnsAtHint(t, "receiveString") =>
              /\ ret'.val = <<>> /\ Untouched(tgt'[t])
              /\ inQueue[tgt'[t]] = <<>> \/ wpc[tgt'[t]] = "count"]_vars

\* C5 witness: receiveString found its delimiter in the second chunk
C5_Witness ==
    \E t \in Callers :
        /\ pc[t] = "idle" /\ ret.by = t /\ ret.op = "receiveString"
        /\ Len(ret.val) = 2 /\ ret.chunks = 2

\* ------------------------------------------------------- connected pair
IsPrefix(a, b) == Len(a) <= Len(b) /\ a = Prefix(b, Len(a))

BothOpen == isOpen(PairSender) /\ isOpen(PairReceiver)

\* bytes of the pair that the receiving caller has got or can get by a call
Receivable == Len(received[PairReceiver]) + inQueueDataSize[PairReceiver]

\* C3: on a connected pair, the bytes returned to the receiving caller so far
\* are a prefix of the payloads accepted by sendData in the order enqueued;
\* and while both ends stay OPEN every accepted byte eventually is receivable
\* (returned already, or counted in the receiver's inQueue).
C3_Prefix ==
    \A c \in Conns : link[c] # 0 => IsPrefix(received[link[c]], sent[c])

C3_Eventually ==
    []<>(~BothOpen \/ Receivable = Len(sent[PairSender]))

C3_PairDelivery == []C3_Prefix /\ C3_Eventually

\* C3 witness: two payloads were accepted and all their bytes returned to the
\* receiving caller, both ends still OPEN
C3_Witness ==
    /\ BothOpen /\ calls["send"] = 2 /\ Len(sent[PairSender]) >= 3
    /\ received[PairReceiver] = sent[PairSender]

\* --------------------------------------------------------------- server
\* 1-based position of x in a sequence without repetitions
Pos(seq, x) == CHOOSE i \in 1 .. Len(seq) : seq[i] = x

Elems(seq) == {seq[i] : i \in 1 .. Len(seq)}

\* C8: getIncomingConnection returns connections in the order the worker
\* accepted them, each at most once: what was returned so far is in accepted
\* order without repetition, the pending queue is the newest part of what
\* was accepted, and a call takes the oldest pending connection, or returns
\* nothing and leaves the queue alone when it is empty.
C8_Order ==
    /\ Elems(returned) \subseteq Elems(accepted)
    /\ \A i, j \in 1 .. Len(returned) :
         i < j => Pos(accepted, returned[i]) < Pos(accepted, returned[j])

C8_QueueOrder ==
    LET n == Len(accepted)
        k == Len(newConnectionsQueue)
    IN /\ k <= n /\ newConnectionsQueue = SubSeq(accepted, n - k + 1, n)
       /\ Elems(returned) \cap Elems(newConnectionsQueue) = {}

C8_Dequeue ==
    \A t \in Callers : Begins(t, "get") =>
        /\ queueMutex = "free" /\ pc'[t] = "idle"
        /\ ret'.op = "getIncomingConnection"
        /\ IF newConnectionsQueue = <<>>
           THEN /\ ret'.val = <<>>
                /\ UNCHANGED <<newConnectionsQueue, returned>>
           ELSE /\ ret'.val = <<Head(newConnectionsQueue)>>
                /\ newConnectionsQueue' = Tail(newConnectionsQueue)
                /\ returned' = Append(returned, Head(newConnectionsQueue))

C8_FifoDequeue == []C8_Order /\ []C8_QueueOrder /\ [][C8_Dequeue]_vars

\* C8 witness: two connections were accepted and both were picked up
C8_Witness ==
    /\ Len(accepted) = 2 /\ returned = accepted
    /\ ret.op = "getIncomingConnection" /\ ret.val = <<accepted[2]>>

\* C9: once a TCPServer::close() has returned, no connection in the pending
\* queue is OPEN, the server's worker has terminated and the listening
\* socket is closed.
C9_ServerClosed ==
    serverCloseReturned =>
        /\ \A c \in Elems(newConnectionsQueue) : ~isOpen(c)
        /\ ~serverIsActive /\ tcpServerSocket = "closed" /\ ~serverIsOpen

\* ------------------------------------------------------- byte counter
\* C11: whenever nobody holds inQueueMutex, inQueueDataSize is the sum of
\* the lengths of the chunks stored in inQueue.
C11_SizeIsSum ==
    \A c \in Conns :
        inQueueMutex[c] = "free" => inQueueDataSize[c] = Len(Flatten(inQueue[c]))

\* C11 witness: a receive operation took one byte and left a non-empty
\* queue behind, which nobody holds locked
C11_Witness ==
    /\ ret.op \in {"receiveData", "receiveString"} /\ Len(ret.val) = 1
    /\ inQueue[1] # <<>> /\ inQueueDataSize[1] > 0 /\ inQueueMutex[1] = "free"

\* ------------------------------------------------------ failure handling
FailPcs == {"sendFail", "pollFail", "recvFail"}

Closed(c) == state[c] = "CLOSED" /\ tcpSocket[c] = "closed" /\ ~isOpen(c)

\* C12: a send that writes less than the chunk, a poll that fails or reports
\* an error event and a recv that returns 0 or less take the worker straight
\* to setState(CLOSING), with no socket operation in between; and, the workers
\* being scheduled fairly, a connection that has left OPEN eventually is
\* CLOSED with its socket closed, no caller having called close() (leaving
\* OPEN is final, so this is stated as: infinitely often OPEN or closed).
C12_FailureSeen(c) ==
    /\ wpc[c] = "send" /\ wpc'[c] # "send" /\ outQueue[c] # <<>> => wpc'[c] = "sendFail"
    /\ wpc[c] = "poll" /\ wpc'[c] \notin {"poll", "loop", "recv"} => wpc'[c] = "pollFail"
    /\ wpc[c] = "recv" /\ wpc'[c] # "recv" /\ netIn'[c] = netIn[c] => wpc'[c] = "recvFail"

C12_NoRetry(c) ==
    wpc[c] \in FailPcs /\ wpc'[c] # wpc[c] =>
        /\ isOpen(c) => state'[c] = "CLOSING"
        /\ state'[c] # "OPEN"
        /\ UNCHANGED <<netIn, netOut, netFin, tcpSocket>>

C12_FailureCloses ==
    /\ [][\A c \in Conns : C12_FailureSeen(c) /\ C12_NoRetry(c)]_vars
    /\ [](calls["close"] = 0)
    /\ \A c \in Conns : []<>(isOpen(c) \/ Closed(c))

\* C12 witness: both ends of the pair are CLOSED with closed sockets and
\* terminated workers, the receiving end after its peer's close reached it
C12_Witness ==
    /\ \A c \in Conns : Closed(c) /\ ~isActive(c)
    /\ netFin[PairReceiver] /\ calls["close"] = 0

\* ------------------------------------------------------------ cancellation
\* one step of a caller that is inside TCPServer::close()
ServerCloseStep(t) ==
    \/ ServerClose_drain(t) \/ ServerClose_pop(t) \/ ServerClose_isOpen(t)
    \/ ServerClose_setState(t) \/ ServerClose_isActive(t) \/ ServerClose_join(t)
    \/ Close_setState(t) \/ Close_isActive(t) \/ Close_join(t)

\* the server whose pending connections nobody picks up, so that close()
\* finds them in the queue
NextCancel ==
    \/ ServerWorker
    \/ RemoteConnect
    \/ \E c \in Conns : RemoteSend(c, Greeting[1])
    \/ \E c \in Conns : Worker(c)
    \/ \E t \in ServerClosers : ServerClose_lock(t)
    \/ \E t \in ServerClosers : ServerCloseStep(t)

\* ... with every thread that has something to do scheduled fairly: the
\* workers, and the callers that are inside close()
SpecCancel ==
    /\ InitServer /\ [][NextCancel]_vars
    /\ WF_vars(ServerWorker)
    /\ \A c \in Conns : WF_vars(Worker(c))
    /\ \A t \in ServerClosers : WF_vars(ServerCloseStep(t))

\* the worker of c has left its loop, closed the socket and returned
Terminated(c) == wpc[c] = "done" /\ tcpSocket[c] = "closed"

ServerTerminated == spc = "done" /\ tcpServerSocket = "closed"

\* C13: a worker that tests isOpen() and finds the state not OPEN starts no
\* further tick but goes on to close its socket; and, every thread being
\* scheduled fairly, a connection or server whose state has left OPEN has its
\* worker terminate with the socket closed, and every caller inside close()
\* returns (leaving OPEN is final, so the former is stated as: infinitely
\* often OPEN or terminated).
C13_NoNewTick ==
    /\ \A c \in Conns :
         /\ wpc[c] = "loop" /\ ~isOpen(c) /\ wpc'[c] # wpc[c] => wpc'[c] = "close"
         /\ wpc[c] = "recvCheck" /\ ~isOpen(c) /\ wpc'[c] # wpc[c] => wpc'[c] = "loop"
         /\ wpc[c] \in {"close", "closed"} /\ wpc'[c] # wpc[c] =>
                wpc'[c] \in {"closed", "done"}
    /\ spc = "loop" /\ ~serverIsOpen /\ spc' # spc => spc' = "close"
    /\ spc \in {"close", "closed"} /\ spc' # spc => spc' \in {"closed", "done"}

C13_CancellationTerminates ==
    /\ [][C13_NoNewTick]_vars
    /\ \A c \in Conns : []<>(~exists[c] \/ isOpen(c) \/ Terminated(c))
    /\ []<>(serverIsOpen \/ ServerTerminated)
    /\ \A t \in ServerClosers : []<>(pc[t] = "idle")

\* C13 witness: TCPServer::close() has returned after closing a pending
\* connection, and the workers of both have terminated
C13_Witness ==
    /\ serverCloseReturned /\ ServerTerminated
    /\ \E c \in Conns : exists[c] /\ closeReturned[c] /\ Terminated(c)

\* --------------------------------------------------------- last active time
\* C14: after the worker has started, whenever connectionDataMutex is free
\* (so that a caller can take it and read), lastActiveTime is the clock
\* reading taken at the most recent successful send or recv on the socket, or
\* at the worker's start if there was none.
C14_LastActiveTime ==
    \A c \in Conns :
        exists[c] /\ wpc[c] # "start" /\ connectionDataMutex[c] = "free" =>
            lastActiveTime[c] = activeAt[c]

\* ------------------------------------------------------------- send loop
\* the step writes the whole head chunk of outQueue[c] to the socket
WritesHead(c) ==
    /\ wpc[c] = "send" /\ outQueue[c] # <<>>
    /\ netOut'[c] = netOut[c] \o Head(outQueue[c])

\* C15: outQueue changes only by a chunk appended at the back or by the
\* head chunk taken off, and the head is taken off only in the step in which
\* one write wrote all of it; a write of fewer bytes leaves the queue as it
\* was, the chunk whole at its head.
C15_Step(c) ==
    LET q == outQueue[c]
        r == outQueue'[c]
    IN /\ \/ r = q
          \/ Len(r) = Len(q) + 1 /\ Prefix(r, Len(q)) = q
          \/ q # <<>> /\ r = Tail(q)
       /\ Len(r) < Len(q) => WritesHead(c)
       /\ wpc[c] = "send" /\ ~WritesHead(c) => r = q

C15_WholeChunkOrNothing == [][\A c \in Conns : C15_Step(c)]_vars

\* C15 witness: one byte of a two-byte chunk was written, the worker has seen
\* the short write and the chunk is whole at the head of the queue
C15_Witness ==
    /\ wpc[1] = "sendFail" /\ outQueue[1] # <<>>
    /\ netOut[1] # <<>> /\ Len(netOut[1]) < Len(Head(outQueue[1]))
    /\ Head(outQueue[1]) \in LifePayloads

\* the worker of c is on its way out: the state is not OPEN and the worker is
\* between the send loop and its return
LeavingPcs == {"recvCheck", "loop", "close", "closed", "done"}
Leaving(c) == ~isOpen(c) /\ wpc[c] \in LeavingPcs

\* no send and no recv on the socket of c in this step: nothing is written,
\* nothing is taken from what has arrived
NoSendNoRecv(c) ==
    /\ netOut'[c] = netOut[c]
    /\ IsPrefix(netIn[c], netIn'[c])
    /\ buffer'[c] = buffer[c]

\* C16: the worker's step after a short or failed write sets CLOSING and
\* leaves the send loop with the queue as it is; from then on the worker only
\* goes on to close the socket: no step sends or receives on the socket, and
\* the socket changes once, from open to closed, in the worker's close step.
C16_Step(c) ==
    /\ wpc[c] = "sendFail" /\ wpc'[c] # wpc[c] =>
         /\ state'[c] = "CLOSING" /\ wpc'[c] = "recvCheck"
         /\ outQueue'[c] = outQueue[c]
         /\ NoSendNoRecv(c) /\ tcpSocket'[c] = tcpSocket[c]
    /\ Leaving(c) =>
         /\ state'[c] # "OPEN" /\ wpc'[c] \in LeavingPcs
         /\ wpc[c] \in {"closed", "done"} => wpc'[c] \in {"closed", "done"}
         /\ NoSendNoRecv(c)
         /\ tcpSocket'[c] # tcpSocket[c] =>
                wpc[c] = "close" /\ wpc'[c] = "closed" /\ tcpSocket'[c] = "closed"

C16_ShortWriteCloses == [][\A c \in Conns : C16_Step(c)]_vars

\* C16 witness: after a short write and with no close() called, the worker
\* has closed the socket and returned; the chunk is still queued, and only
\* the bytes of the short write went out
C16_Witness ==
    /\ calls["close"] = 0 /\ ~netFin[1] /\ calls["bytes"] = 0
    /\ wpc[1] = "done" /\ tcpSocket[1] = "closed" /\ state[1] = "CLOSED"
    /\ outQueue[1] # <<>> /\ Len(netOut[1]) = 1

\* ------------------------------------------------------- socket and CLOSED
\* positions of the workers after ::close of the socket
AfterClosePcs == {"closed", "done"}

C17_State ==
    /\ \A c \in Conns :
         /\ state[c] = "CLOSED" => tcpSocket[c] = "closed"
         /\ tcpSocket[c] = "closed" <=> wpc[c] \in AfterClosePcs
    /\ serverState = "CLOSED" => tcpServerSocket = "closed"
    /\ tcpServerSocket = "closed" <=> spc \in AfterClosePcs

C17_Step ==
    /\ \A c \in Conns :
         /\ tcpSocket'[c] # tcpSocket[c] /\ exists[c] =>
                wpc[c] = "close" /\ tcpSocket'[c] = "closed"
         /\ wpc[c] \in AfterClosePcs => wpc'[c] \in AfterClosePcs
    /\ tcpServerSocket' # tcpServerSocket => spc = "close" /\ tcpServerSocket' = "closed"
    /\ spc \in AfterClosePcs => spc' \in AfterClosePcs

\* C17: the socket of a connection and of a server changes only in the
\* worker's close step after the loop, which is taken once; with the state
\* CLOSED the socket is closed; and once the socket is closed the worker is
\* past every send, poll, recv and accept and stays there.
C17_ClosedOnce == [][C17_Step]_vars /\ []C17_State

\* C17 witness: the server and a connection it accepted are CLOSED, their
\* sockets closed by their workers
C17_Witness ==
    /\ serverState = "CLOSED" /\ tcpServerSocket = "closed" /\ spc = "done"
    /\ \E c \in Conns :
         exists[c] /\ state[c] = "CLOSED" /\ tcpSocket[c] = "closed" /\ wpc[c] = "done"

\* the step is one of a caller thread
CallerStep == pc' # pc \/ calls' # calls

\* C18: CLOSED is written only by the worker's last step, after the loop and
\* after the socket was closed, for a connection and for a server; a step of
\* a caller writes at most CLOSING.
C18_Step ==
    /\ \A c \in Conns :
         /\ state'[c] # state[c] /\ state'[c] = "CLOSED" =>
                /\ wpc[c] = "closed" /\ wpc'[c] = "done" /\ tcpSocket[c] = "closed"
                /\ ~CallerStep
         /\ state'[c] # state[c] /\ CallerStep => state'[c] = "CLOSING"
    /\ serverState' # serverState /\ serverState' = "CLOSED" =>
         /\ spc = "closed" /\ spc' = "done" /\ tcpServerSocket = "closed"
         /\ ~CallerStep
    /\ serverState' # serverState /\ CallerStep => serverState' = "CLOSING"

C18_OnlyWorkerCloses == [][C18_Step]_vars

\* C18 witness: a caller inside close() has written CLOSING and waits for
\* the worker, which has closed the socket and is about to write CLOSED
C18_Witness ==
    \E t \in Callers :
        /\ pc[t] = "cl_join" /\ state[tgt[t]] = "CLOSING"
        /\ wpc[tgt[t]] = "closed" /\ tcpSocket[tgt[t]] = "closed"

\* ------------------------------------------------------------- lock order
\* the locks of connection c below stateMutex that thread x holds
HeldBy(x, c) ==
    {m \in {"connectionData", "outQueue", "inQueue"} :
        \/ m = "connectionData" /\ connectionDataMutex[c] = x
        \/ m = "outQueue" /\ outQueueMutex[c] = x
        \/ m = "inQueue" /\ inQueueMutex[c] = x}

\* the step is one of the worker of c that calls isOpen() or setState(), both
\* of which take stateMutex
WorkerTakesStateMutex(c) ==
    /\ wpc'[c] # wpc[c]
    /\ wpc[c] \in {"loop", "recvCheck"} \/ state'[c] # state[c]

\* C19: a thread takes stateMutex holding none of the other locks of the
\* connection, connectionDataMutex holding neither queue lock, and
\* outQueueMutex not holding inQueueMutex.
C19_Step(c) ==
    /\ WorkerTakesStateMutex(c) => HeldBy("worker", c) = {}
    /\ \A t \in Callers :
         pc'[t] # pc[t] /\ state'[c] # state[c] => HeldBy(t, c) = {}
    /\ connectionDataMutex'[c] \notin {"free", connectionDataMutex[c]} =>
         HeldBy(connectionDataMutex'[c], c) \subseteq {}
    /\ outQueueMutex'[c] \notin {"free", outQueueMutex[c]} =>
         HeldBy(outQueueMutex'[c], c) \subseteq {"connectionData"}

C19_LockOrder == [][\A c \in Conns : C19_Step(c)]_vars

\* --------------------------------------------------------------- deadlock
\* the threads: the callers, the worker of each connection, the server's worker
WorkerId == [c \in Conns |-> <<"w1", "w2">>[c]]
ServerId == "server"
Threads == Callers \cup {WorkerId[c] : c \in Conns} \cup {ServerId}

\* the thread that holds a mutex with value m, w being the worker it belongs to
Owner(m, w) == IF m = "free" THEN {} ELSE IF m = "worker" THEN {w} ELSE {m}

\* the thread the worker of c waits for: the holder of the lock it is about
\* to take
WorkerWaitsFor(c) ==
    IF ~exists[c] THEN {}
    ELSE IF wpc[c] \in {"start", "lockC", "recv", "close"}
         THEN Owner(connectionDataMutex[c], WorkerId[c])
    ELSE IF wpc[c] = "lockO" THEN Owner(outQueueMutex[c], WorkerId[c])
    ELSE IF wpc[c] = "enqueue" THEN Owner(inQueueMutex[c], WorkerId[c])
    ELSE {}

ServerWaitsFor ==
    IF spc \in {"start", "accept", "close"} THEN Owner(serverDataMutex, ServerId)
    ELSE IF spc = "push" THEN Owner(queueMutex, ServerId)
    ELSE {}

\* the thread caller t waits for: the holder of the lock it is about to
\* take, or the worker it joins
CallerWaitsFor(t) ==
    IF pc[t] = "sd_enqueue" THEN Owner(outQueueMutex[tgt[t]], WorkerId[tgt[t]])
    ELSE IF pc[t] \in {"ra_extract", "rd_extract", "rs_extract"}
         THEN Owner(inQueueMutex[tgt[t]], WorkerId[tgt[t]])
    ELSE IF pc[t] = "cl_join"
         THEN IF isActive(tgt[t]) THEN {WorkerId[tgt[t]]} ELSE {}
    ELSE IF pc[t] = "sc_join" THEN IF serverIsActive THEN {ServerId} ELSE {}
    ELSE {}

WaitsFor(x) ==
    IF x \in Callers THEN CallerWaitsFor(x)
    ELSE IF x = ServerId THEN ServerWaitsFor
    ELSE UNION {WorkerWaitsFor(c) : c \in {d \in Conns : WorkerId[d] = x}}

\* the threads reached from those in S along at most n waits
RECURSIVE WaitChain(_, _)
WaitChain(S, n) ==
    IF n = 0 THEN S ELSE WaitChain(S \cup UNION {WaitsFor(y) : y \in S}, n - 1)

InWaitCycle(x) == x \in WaitChain(WaitsFor(x), Cardinality(Threads))

\* a thread that has begun something and waits for nobody can take its step
CanStep(x) ==
    IF x \in Callers
    THEN pc[x] # "idle" =>
           ENABLED (\/ SendData_enqueue(x) \/ ReceiveAll_extract(x)
                    \/ ReceiveData_extract(x) \/ ReceiveString_extract(x)
                    \/ Close_setState(x) \/ Close_isActive(x) \/ Close_join(x)
                    \/ ServerCloseStep(x))
    ELSE IF x = ServerId
    THEN spc \notin {"none", "done"} => ENABLED ServerWorker
    ELSE \A c \in Conns :
           WorkerId[c] = x /\ exists[c] /\ isActive(c) => ENABLED Worker(c)

\* C20: no thread waits, along locks held and joins, for itself; and a thread
\* that waits for nobody is able to go on. So every waiting thread waits for
\* a chain of threads the last of which can step.
C20_NoDeadlock ==
    \A x \in Threads :
        /\ ~InWaitCycle(x)
        /\ WaitsFor(x) = {} => CanStep(x)

\* C20 witness: TCPServer::close() holds queueMutex and joins the worker of
\* a pending connection, while the server's worker waits for queueMutex to
\* queue the connection it has accepted
C20_Witness ==
    \E t \in Callers :
        /\ queueMutex = t /\ pc[t] = "cl_join" /\ isActive(tgt[t])
        /\ spc = "push" /\ ServerWaitsFor = {t}
        /\ WaitsFor(WorkerId[tgt[t]]) = {}

\* -------------------------------------------------------------- lock holds
\* C21: between taking and releasing connectionDataMutex and outQueueMutex the
\* worker makes at most one send call, however many chunks are queued.
C21_OneSyscallPerHold == \A c \in Conns : syscalls[c] <= 1

\* ------------------------------------------------------------- extraction
\* q2 is what is left of queue q when its first d bytes are taken: the first
\* k chunks are gone, of the next one its non-empty rest stays if a part of
\* it was taken, the chunks behind are as they were
Remainder(q, d, q2) ==
    \E k \in 0 .. Len(q) :
        LET used == Len(Flatten(Prefix(q, k)))
        IN /\ used <= d
           /\ IF used = d
              THEN q2 = Suffix(q, k)
              ELSE /\ k < Len(q) /\ d - used < Len(q[k + 1])
                   /\ q2 = <<Suffix(q[k + 1], d - used)>> \o Suffix(q, k + 1)

NoEmptyChunk(q) == \A i \in 1 .. Len(q) : q[i] # <<>>

\* C22: a call of receiveData(n) with 1 <= n <= inQueueDataSize, and a call of
\* receiveData() with n = inQueueDataSize >= 1, returns the first n bytes of
\* the bytes queued, takes exactly n off the counter and leaves the queue
\* holding the remaining bytes: consumed chunks gone, a chunk consumed in
\* part replaced by its non-empty rest, later chunks untouched, no chunk
\* empty.
C22_Step(t) ==
    LET c == tgt[t]
        q == inQueue[c]
        n == IF pc[t] = "rd_extract" THEN arg[t][1] ELSE inQueueDataSize[c]
    IN pc[t] \in {"rd_extract", "ra_extract"} /\ pc'[t] = "idle"
       /\ 1 <= n /\ n <= inQueueDataSize[c] =>
           /\ ret'.val = Prefix(Flatten(q), n) /\ Len(ret'.val) = n
           /\ Flatten(inQueue'[c]) = Suffix(Flatten(q), n)
           /\ Remainder(q, n, inQueue'[c])
           /\ inQueueDataSize'[c] = inQueueDataSize[c] - n
           /\ NoEmptyChunk(inQueue'[c])

C22_Extraction == [][\A t \in Callers : C22_Step(t)]_vars

\* C22 witness: receiveData(numBytes) has returned fewer bytes than the first
\* of several chunks held: no chunk is gone, the chunks are all non-empty and
\* the counter is the bytes they hold
C22_Witness ==
    /\ ret.op = "receiveData" /\ ret.val # <<>> /\ ret.chunks = MaxChunks
    /\ Len(inQueue[1]) = ret.chunks /\ NoEmptyChunk(inQueue[1])
    /\ inQueueDataSize[1] = Len(Flatten(inQueue[1]))

\* ----------------------------------------------------------------- accept
\* C23: no connection the server's worker has queued, whether it is still
\* pending or was handed out by getIncomingConnection, wraps the result of a
\* failed accept.
C23_AcceptedSockets ==
    \A i \in 1 .. Len(accepted) : tcpSocket[accepted[i]] # "bad"

\* -------------------------------------------------------------- factories
\* the step is a call of a factory that returns nothing
ReturnsNothing ==
    /\ calls'["connect"] # calls["connect"] \/ calls'["create"] # calls["create"]
    /\ ret'.op \in {"connect", "create"} /\ ret'.val = <<>>

\* C24: a call of connect or create that returns nothing leaves no socket
\* open that it opened, starts no worker and constructs no object.
C24_NothingLeftBehind ==
    [][ReturnsNothing =>
          /\ looseSockets' = looseSockets
          /\ exists' = exists /\ wpc' = wpc /\ spc' = spc]_vars

====
